---- MODULE Spec2Model ----
(***************************************************************************)
(* Model of the GIVC LINC agents (backend/linc-agents/src/index.ts) and of *)
(* the durable workflows worker embedded in setup.sh.                      *)
(*                                                                         *)
(* Agents part: the Hono worker routes a request to a named agent          *)
(* instance; every agent handler is an async function, so handlers of one  *)
(* instance interleave at their await points.  One action of the model is  *)
(* one synchronous stretch of a handler, from a resumption to the next     *)
(* await (or to the return).                                               *)
(***************************************************************************)
EXTENDS Integers, Sequences, FiniteSets, TLC

\* ------------------------------------------------------------------ bounds
MaxReq == 2
MaxDay == 1
MaxRuns == 2
MaxReplays == 1

\* ------------------------------------------------------- request alphabet
Absent == "<absent>"
NoPayload == "<no-payload>"
Ids == {Absent, "", "default", "a"}
AgentKinds == {"claims", "audit", "learning"}
KnownActions == {"analyze_claim", "run_audit", "generate_learning_path"}
Actions == KnownActions \cup {"foo"}
DirectRequests == [route : AgentKinds, action : {"-"}, id : Ids]
OrchestrateRequests ==
    [route : {"orchestrate"}, action : KnownActions, id : Ids \cup {NoPayload}]
      \cup [route : {"orchestrate"}, action : {"foo"}, id : {NoPayload}]
\* requests routed by URL, /agents/<agent>/<name>/<path>, to a health check
\* or to a path no agent serves
Paths == {"health", "other"}
AgentRequests ==
    [route : AgentKinds, action : Paths, id : {"a"}]
      \cup [route : {"master"}, action : Paths, id : {"-"}]
Requests == DirectRequests \cup OrchestrateRequests \cup AgentRequests
ReqIds == 1..MaxReq

\* -------------------------------------------------------------- instances
MasterName == "master-orchestrator"
Keys == {"default", "a", "undefined"}
Hub == <<"master", MasterName>>
Instances == {Hub} \cup (AgentKinds \X Keys)
NoInst == <<"none", "none">>
Null == <<>>

\* ------------------------------------------------------------ texts
\* A rejection reason is a sequence of characters.  undefined (the field is
\* absent) is the one-element sequence AbsentReason.
AbsentReason == <<Absent>>
UpperCase == <<"A", "B", "C", "D", "E", "F", "G", "H", "I", "J", "K", "L", "M", "N", "O", "P", "Q", "R", "S", "T", "U", "V", "W", "X", "Y", "Z">>
LowerCase == <<"a", "b", "c", "d", "e", "f", "g", "h", "i", "j", "k", "l", "m", "n", "o", "p", "q", "r", "s", "t", "u", "v", "w", "x", "y", "z">>
\* String.prototype.toLowerCase
toLowerCase(t) ==
    [i \in 1..Len(t) |->
        IF \E k \in 1..Len(UpperCase) : UpperCase[k] = t[i]
        THEN LowerCase[CHOOSE k \in 1..Len(UpperCase) : UpperCase[k] = t[i]]
        ELSE t[i]]
\* String.prototype.includes
includes(t, kw) ==
    \E i \in 1..(Len(t) - Len(kw) + 1) : SubSeq(t, i, i + Len(kw) - 1) = kw
\* `if (rejectionReason)`: neither undefined nor the empty string
Truthy(t) == t # AbsentReason /\ t # <<>>

\* the keywords of the rejection categories
KwCode ==
    <<"c", "o", "d", "e">>
KwInvalid ==
    <<"i", "n", "v", "a", "l", "i", "d">>
KwAuthorization ==
    <<"a", "u", "t", "h", "o", "r", "i", "z", "a", "t", "i", "o", "n">>
KwPriorAuth ==
    <<"p", "r", "i", "o", "r", " ", "a", "u", "t", "h">>
KwDocumentation ==
    <<"d", "o", "c", "u", "m", "e", "n", "t", "a", "t", "i", "o", "n">>
KwMedicalNecessity ==
    <<"m", "e", "d", "i", "c", "a", "l", " ", "n", "e", "c", "e", "s", "s",
      "i", "t", "y">>
KwTimely ==
    <<"t", "i", "m", "e", "l", "y">>
KwDeadline ==
    <<"d", "e", "a", "d", "l", "i", "n", "e">>

\* rejection reasons handed to the analysis
TxtCode ==
    <<"c", "o", "d", "e">>
TxtOther ==
    <<"o", "t", "h", "e", "r">>
TxtMissingPriorAuthorization ==
    <<"m", "i", "s", "s", "i", "n", "g", " ", "p", "r", "i", "o", "r", " ",
      "a", "u", "t", "h", "o", "r", "i", "z", "a", "t", "i", "o", "n">>
TxtPriorAuthDenied ==
    <<"P", "r", "i", "o", "r", " ", "a", "u", "t", "h", " ", "d", "e", "n",
      "i", "e", "d">>
TxtInvalidCode ==
    <<"I", "N", "V", "A", "L", "I", "D", " ", "p", "r", "o", "c", "e", "d",
      "u", "r", "e", " ", "C", "o", "d", "e">>
TxtInvalid ==
    <<"i", "n", "v", "a", "l", "i", "d", " ", "m", "o", "d", "i", "f", "i",
      "e", "r">>
TxtMedicalNecessity ==
    <<"m", "e", "d", "i", "c", "a", "l", " ", "n", "e", "c", "e", "s", "s",
      "i", "t", "y", " ", "n", "o", "t", " ", "m", "e", "t">>
TxtDocumentation ==
    <<"I", "n", "s", "u", "f", "f", "i", "c", "i", "e", "n", "t", " ", "D",
      "o", "c", "u", "m", "e", "n", "t", "a", "t", "i", "o", "n">>
TxtDeadline ==
    <<"p", "a", "s", "t", " ", "f", "i", "l", "i", "n", "g", " ", "d", "e",
      "a", "d", "l", "i", "n", "e">>
TxtTimelyCode ==
    <<"n", "o", "t", " ", "t", "i", "m", "e", "l", "y", ",", " ", "w", "r",
      "o", "n", "g", " ", "c", "o", "d", "e">>
TxtAll ==
    <<"c", "o", "d", "e", " ", "a", "u", "t", "h", "o", "r", "i", "z", "a",
      "t", "i", "o", "n", " ", "d", "o", "c", "u", "m", "e", "n", "t", "a",
      "t", "i", "o", "n", " ", "t", "i", "m", "e", "l", "y">>
TxtDocAuth ==
    <<"d", "o", "c", "u", "m", "e", "n", "t", "a", "t", "i", "o", "n", " ",
      "l", "a", "c", "k", "s", " ", "a", "u", "t", "h", "o", "r", "i", "z",
      "a", "t", "i", "o", "n">>
TxtDuplicate ==
    <<"d", "u", "p", "l", "i", "c", "a", "t", "e", " ", "c", "l", "a", "i",
      "m">>
TxtCod ==
    <<"c", "o", "d", " ", "e">>

\* target certifications, and the keyword the module list depends on
KwCCP == <<"C", "C", "P">>
CertCCPKSA == <<"C", "C", "P", "-", "K", "S", "A">>
CertRHIA == <<"R", "H", "I", "A">>

VARIABLES
    reqs,       \* requests received by the worker, in arrival order
    tgt,        \* agent instance whose handler serves request r
    pc,         \* position of the agent handler serving request r
    hpc,        \* position of MasterLincAgent's handler for request r
    out,        \* what the agent handler serving r returned or raised
    resp,       \* response of MasterLincAgent to request r
    dcalls,     \* downstream fetches issued by the Hub for request r
    state,      \* this.state of every agent instance
    rows,       \* the SQL table of every agent instance
    triggered,  \* requests whose side-channel workflow run was created
    wfBound,    \* env.*_WORKFLOW bindings present
    made,       \* the id the handler serving r generated (analysisId, auditId, pathId)
    day         \* calendar day, as read by new Date()

avars == <<reqs, tgt, pc, hpc, out, resp, dcalls, state, rows, triggered, wfBound,
          made, day>>

VARIABLES
    wruns,      \* workflow runs created, with their params
    wstatus,    \* status of run n
    wpos,       \* the step.do call run() of run n is at, in this invocation
    winv,       \* how often the engine re-invoked run() of run n
    wrec,       \* the step records of run n, by step name
    wcalls,     \* invocations of the step function of the k-th step.do of run n
    wlocal,     \* values step.do returned to run() in this invocation
    whave,      \* the step.do calls that returned in this invocation
    wout        \* what run() returned

wvars == <<wruns, wstatus, wpos, winv, wrec, wcalls, wlocal, whave, wout>>

VARIABLES
    lookup,     \* the last answer of GET /api/workflow/status/:id
    arg,        \* the input handed to the scoring and analysis functions
    ans         \* what those functions returned for arg

VARIABLES
    isRefreshing,   \* api.ts: a token refresh is in progress
    failedQueue,    \* api.ts: the calls waiting for the refresh in progress
    call,           \* the calls made through `api`, with their position
    refreshToken,   \* localStorage holds 'refresh_token'
    redirected,     \* window.location.href was set to '/auth/login'
    language,       \* useUIStore.language
    direction,      \* useUIStore.direction
    kv,             \* unified worker: the count stored under ratelimit:<ip>
    rl,             \* the checkRateLimit calls in progress for that ip
    admitted        \* calls checkRateLimit admitted in this lifetime of the key

webvars == <<isRefreshing, failedQueue, call, refreshToken, redirected, language, direction>>
edgevars == <<kv, rl, admitted>>
uvars == <<webvars, edgevars>>
fvars == <<lookup, arg, ans, uvars>>
vars == <<avars, wvars, fvars>>

\* `x || 'default'`
Falsy(v) == v \in {Absent, ""}
OrDefault(v) == IF Falsy(v) THEN "default" ELSE v

\* Variant: `claims-${body.claimId}`, without the default
ClaimsAgentId_NoDefault(id) == IF id = Absent THEN "undefined" ELSE id

\* app.post('/api/v1/claims/analyze'): agentId = body.claimId || 'default'
ClaimsAgentId(id) == OrDefault(id)
\* app.post('/api/audit/simulate'): agentId = body.providerId || 'default'
AuditAgentId(id) == OrDefault(id)
\* app.post('/api/learning/path'): agentId = body.learnerId || 'default'
LearningAgentId(id) == OrDefault(id)

DirectAgentId(kind, id) ==
    CASE kind = "claims" -> ClaimsAgentId(id)
      [] kind = "audit" -> AuditAgentId(id)
      [] kind = "learning" -> LearningAgentId(id)

\* getAgentByName(env.<Kind>Agent, `<kind>-${agentId}`)
getAgentByName(kind, agentId) == <<kind, agentId>>

\* routeAgentRequest(request, env): the instance named in the URL
routeAgentRequest(kind, name) == <<kind, name>>

\* handleOrchestrate's switch: the agent kind an action is routed to
ActionKind(action) ==
    CASE action = "analyze_claim" -> "claims"
      [] action = "run_audit" -> "audit"
      [] action = "generate_learning_path" -> "learning"
      [] OTHER -> "none"

\* Variant: run_audit keyed by the wrong payload field, so always 'default'
HubAgentId_WrongField(action, id) ==
    CASE action = "analyze_claim" -> OrDefault(id)
      [] action = "run_audit" -> "default"
      [] action = "generate_learning_path" -> OrDefault(id)

\* `claims-${payload.claimId || 'default'}` and its two siblings
HubAgentId(action, id) ==
    CASE action = "analyze_claim" -> OrDefault(id)
      [] action = "run_audit" -> OrDefault(id)
      [] action = "generate_learning_path" -> OrDefault(id)

\* crypto.randomUUID(): a fresh identifier for every call
randomUUID(r, site) == <<site, r>>

\* providerId.substring(0, 8).toUpperCase()
Upper8(id) ==
    CASE id = "a" -> "A"
      [] id = "default" -> "DEFAULT"
      [] id = "" -> ""

\* `CHI-AUDIT-${date}-${providerId.substring(0, 8).toUpperCase()}`
AuditId(d, id) == <<"CHI-AUDIT", d, Upper8(id)>>

initialState == [created |-> FALSE, requestCount |-> 0, lastActivity |-> 0, count |-> 0]

\* onRequest: setState({...state, lastActivity, requestCount: requestCount + 1})
TouchState(s, r) ==
    [s EXCEPT !.created = TRUE, !.lastActivity = r, !.requestCount = @ + 1]

\* Variant: setState without the `...this.state` spread
AnalyzeSetState_NoSpread(s) == [initialState EXCEPT !.created = TRUE, !.count = s.count + 1]

\* analyzeClaim: setState({...state, claimsAnalyzed: claimsAnalyzed + 1})
AnalyzeSetState(s) == [s EXCEPT !.count = @ + 1]

\* simulateAudit: setState({...state, auditsCompleted: auditsCompleted + 1})
AuditSetState(s) == [s EXCEPT !.count = @ + 1]

\* generateLearningPath: setState({...state, pathsGenerated: pathsGenerated + 1})
LearningSetState(s) == [s EXCEPT !.count = @ + 1]

RowIds(tbl) == {tbl[k].id : k \in 1..Len(tbl)}

\* INSERT INTO <table> (id PRIMARY KEY, ...): fails on a duplicate id
CanInsert(tbl, id) == id \notin RowIds(tbl)

\* Variant: the request is not logged before the switch
LogRequest_Skipped(tbl, id, action, payload) == tbl

\* INSERT INTO requests (id, type, payload, created_at)
LogRequest(tbl, id, action, payload) ==
    Append(tbl, [id |-> id, type |-> action, payload |-> payload, response |-> Null])

\* UPDATE requests SET response = ... WHERE id = ...
LogResponse(tbl, id, result) ==
    [k \in 1..Len(tbl) |->
        IF tbl[k].id = id THEN [tbl[k] EXCEPT !.response = result] ELSE tbl[k]]

NoResp == [status |-> 0, body |-> "none", detail |-> Null]

Init ==
    /\ reqs = <<>>
    /\ tgt = [r \in ReqIds |-> NoInst]
    /\ pc = [r \in ReqIds |-> "idle"]
    /\ hpc = [r \in ReqIds |-> "none"]
    /\ out = [r \in ReqIds |-> NoResp]
    /\ resp = [r \in ReqIds |-> NoResp]
    /\ dcalls = [r \in ReqIds |-> 0]
    /\ state = [i \in Instances |-> initialState]
    /\ rows = [i \in Instances |-> <<>>]
    /\ triggered = {}
    /\ wfBound \in BOOLEAN
    /\ made = [r \in ReqIds |-> <<>>]
    /\ day = 0

\* The worker receives a request.  A direct route parses the body, resolves
\* the agent by name and forwards the request; /api/v1/orchestrate forwards
\* it to the single master agent.
Arrive(q) ==
    /\ Len(reqs) < MaxReq
    /\ LET r == Len(reqs) + 1 IN
        /\ reqs' = Append(reqs, q)
        /\ IF q.route \in {"orchestrate", "master"}
           THEN /\ hpc' = [hpc EXCEPT ![r] = "start"]
                /\ UNCHANGED <<tgt, pc>>
           ELSE /\ tgt' = [tgt EXCEPT ![r] =
                        IF q.action \in Paths
                        THEN routeAgentRequest(q.route, q.id)
                        ELSE getAgentByName(q.route, DirectAgentId(q.route, q.id))]
                /\ pc' = [pc EXCEPT ![r] = "start"]
                /\ UNCHANGED hpc
    /\ UNCHANGED <<out, resp, dcalls, state, rows, triggered, wfBound, day>>
    /\ UNCHANGED made
    /\ UNCHANGED <<wvars, fvars>>

\* The agent handler serving r settles: agent.fetch() hands the response (or
\* the exception) to its caller, the worker route or the waiting Hub.
Reply(r, rsp) == out' = [out EXCEPT ![r] = rsp]

Ok(body, detail) == [status |-> 200, body |-> body, detail |-> detail]
Thrown(msg) == [status |-> 500, body |-> "exception", detail |-> <<msg>>]

Healthy == [status |-> 200, body |-> "healthy", detail |-> Null]
NotFound == [status |-> 404, body |-> "Not found", detail |-> Null]
\* the answer of onRequest to a path that is not the handler's
PathResponse(path) == IF path = "health" THEN Healthy ELSE NotFound

\* Variant: the health check answered before the state update
OnRequest_HealthFirst(r) ==
    /\ pc[r] = "start"
    /\ IF reqs[r].action = "health"
       THEN /\ pc' = [pc EXCEPT ![r] = "answered"]
            /\ Reply(r, Healthy)
            /\ state' = state
       ELSE /\ state' = [state EXCEPT ![tgt[r]] = TouchState(@, r)]
            /\ IF reqs[r].action \in Paths
               THEN /\ pc' = [pc EXCEPT ![r] = "answered"]
                    /\ Reply(r, NotFound)
               ELSE /\ pc' = [pc EXCEPT ![r] = "json"]
                    /\ out' = out
    /\ UNCHANGED <<reqs, tgt, hpc, resp, dcalls, rows, triggered, wfBound, day>>
    /\ UNCHANGED made
    /\ UNCHANGED <<wvars, fvars>>

\* <Agent>.onRequest: the state update, then the health check, the matched
\* handler up to its first await (`await request.json()`), or 404.
OnRequest(r) ==
    /\ pc[r] = "start"
    /\ state' = [state EXCEPT ![tgt[r]] = TouchState(@, r)]
    /\ IF reqs[r].action \in Paths
       THEN /\ pc' = [pc EXCEPT ![r] = "answered"]
            /\ Reply(r, PathResponse(reqs[r].action))
       ELSE /\ pc' = [pc EXCEPT ![r] = "json"]
            /\ out' = out
    /\ UNCHANGED <<reqs, tgt, hpc, resp, dcalls, rows, triggered, wfBound, day>>
    /\ UNCHANGED made
    /\ UNCHANGED <<wvars, fvars>>

\* The tail shared by the three handlers: trigger the workflow when the
\* binding exists (an await), otherwise return the response.
Finish(r, rowid) ==
    /\ made' = [made EXCEPT ![r] = rowid]
    /\ IF wfBound
       THEN /\ pc' = [pc EXCEPT ![r] = "wf"]
            /\ out' = out
       ELSE /\ pc' = [pc EXCEPT ![r] = "done"]
            /\ Reply(r, Ok("result", rowid))

\* analyzeClaim from `await request.json()` to `await this.performAnalysis()`
ClaimsParsed(r) ==
    /\ pc[r] = "json"
    /\ tgt[r][1] = "claims"
    /\ pc' = [pc EXCEPT ![r] = "analysis"]
    /\ UNCHANGED <<reqs, tgt, hpc, out, resp, dcalls, state, rows, triggered, wfBound, day>>
    /\ UNCHANGED made
    /\ UNCHANGED <<wvars, fvars>>

\* analyzeClaim after performAnalysis: INSERT, setState, workflow trigger
ClaimsStore(r) ==
    /\ pc[r] = "analysis"
    /\ LET i == tgt[r]
           id == randomUUID(r, "analysis") IN
        /\ rows' = [rows EXCEPT ![i] = Append(@, [id |-> id, key |-> reqs[r].id])]
        /\ state' = [state EXCEPT ![i] = AnalyzeSetState(@)]
        /\ Finish(r, id)
    /\ UNCHANGED <<reqs, tgt, hpc, resp, dcalls, triggered, wfBound, day>>
    /\ UNCHANGED <<wvars, fvars>>

\* Variant: setState is called before the INSERT
AuditStore_CountFirst(r) ==
    /\ pc[r] = "json"
    /\ tgt[r][1] = "audit"
    /\ LET i == tgt[r]
           p == reqs[r].id IN
        IF p = Absent
        THEN \* providerId.substring on undefined: TypeError
             /\ pc' = [pc EXCEPT ![r] = "threw"]
             /\ Reply(r, Thrown("TypeError"))
             /\ UNCHANGED <<state, rows, made>>
        ELSE IF ~CanInsert(rows[i], AuditId(day, p))
        THEN \* PRIMARY KEY violation raised by this.sql
             /\ pc' = [pc EXCEPT ![r] = "threw"]
             /\ Reply(r, Thrown("SqlError"))
             /\ state' = [state EXCEPT ![i] = AuditSetState(@)]
             /\ UNCHANGED <<rows, made>>
        ELSE /\ rows' = [rows EXCEPT ![i] =
                    Append(@, [id |-> AuditId(day, p), key |-> p])]
             /\ state' = [state EXCEPT ![i] = AuditSetState(@)]
             /\ Finish(r, AuditId(day, p))
    /\ UNCHANGED <<reqs, tgt, hpc, resp, dcalls, triggered, wfBound, day>>
    /\ UNCHANGED <<wvars, fvars>>

\* simulateAudit after `await request.json()`
AuditStore(r) ==
    /\ pc[r] = "json"
    /\ tgt[r][1] = "audit"
    /\ LET i == tgt[r]
           p == reqs[r].id IN
        IF p = Absent
        THEN \* providerId.substring on undefined: TypeError
             /\ pc' = [pc EXCEPT ![r] = "threw"]
             /\ Reply(r, Thrown("TypeError"))
             /\ UNCHANGED <<state, rows, made>>
        ELSE IF ~CanInsert(rows[i], AuditId(day, p))
        THEN \* PRIMARY KEY violation raised by this.sql
             /\ pc' = [pc EXCEPT ![r] = "threw"]
             /\ Reply(r, Thrown("SqlError"))
             /\ UNCHANGED <<state, rows, made>>
        ELSE /\ rows' = [rows EXCEPT ![i] =
                    Append(@, [id |-> AuditId(day, p), key |-> p])]
             /\ state' = [state EXCEPT ![i] = AuditSetState(@)]
             /\ Finish(r, AuditId(day, p))
    /\ UNCHANGED <<reqs, tgt, hpc, resp, dcalls, triggered, wfBound, day>>
    /\ UNCHANGED <<wvars, fvars>>

\* generateLearningPath after `await request.json()`; cert: the body carries
\* a targetCertification
LearningStore(r, cert) ==
    /\ pc[r] = "json"
    /\ tgt[r][1] = "learning"
    /\ LET i == tgt[r]
           id == randomUUID(r, "path") IN
        IF ~cert
        THEN \* targetCertification.toUpperCase on undefined: TypeError
             /\ pc' = [pc EXCEPT ![r] = "threw"]
             /\ Reply(r, Thrown("TypeError"))
             /\ UNCHANGED <<state, rows, made>>
        ELSE /\ rows' = [rows EXCEPT ![i] = Append(@, [id |-> id, key |-> reqs[r].id])]
             /\ state' = [state EXCEPT ![i] = LearningSetState(@)]
             /\ Finish(r, id)
    /\ UNCHANGED <<reqs, tgt, hpc, resp, dcalls, triggered, wfBound, day>>
    /\ UNCHANGED <<wvars, fvars>>

\* Variant: create() awaited outside any try/catch
WorkflowTriggered_Uncaught(r, ok) ==
    /\ pc[r] = "wf"
    /\ triggered' = IF ok THEN triggered \cup {r} ELSE triggered
    /\ IF ok
       THEN /\ pc' = [pc EXCEPT ![r] = "done"]
            /\ Reply(r, Ok("result", made[r]))
       ELSE /\ pc' = [pc EXCEPT ![r] = "threw"]
            /\ Reply(r, Thrown("WorkflowError"))
    /\ UNCHANGED <<reqs, tgt, hpc, resp, dcalls, state, rows, wfBound, day>>
    /\ UNCHANGED made
    /\ UNCHANGED <<wvars, fvars>>

\* `await this.env.<KIND>_WORKFLOW.create(...)` returns or raises; a raise is
\* caught and logged, and the handler returns its response either way.
WorkflowTriggered(r, ok) ==
    /\ pc[r] = "wf"
    /\ triggered' = IF ok THEN triggered \cup {r} ELSE triggered
    /\ pc' = [pc EXCEPT ![r] = "done"]
    /\ Reply(r, Ok("result", made[r]))
    /\ UNCHANGED <<reqs, tgt, hpc, resp, dcalls, state, rows, wfBound, day>>
    /\ UNCHANGED made
    /\ UNCHANGED <<wvars, fvars>>

\* MasterLincAgent.onRequest up to `await request.json()` in handleOrchestrate
HubOnRequest(r) ==
    /\ hpc[r] = "start"
    /\ state' = [state EXCEPT ![Hub] = TouchState(@, r)]
    /\ IF reqs[r].route = "master"
       THEN /\ hpc' = [hpc EXCEPT ![r] = "done"]
            /\ resp' = [resp EXCEPT ![r] = PathResponse(reqs[r].action)]
       ELSE /\ hpc' = [hpc EXCEPT ![r] = "json"]
            /\ resp' = resp
    /\ UNCHANGED <<reqs, tgt, pc, out, dcalls, rows, triggered, wfBound, day>>
    /\ UNCHANGED made
    /\ UNCHANGED <<wvars, fvars>>

\* Variant: the catch block answers without the 500 status argument
OrchestrationFailed_DefaultStatus(msg) ==
    [status |-> 200, body |-> "envelope", detail |-> msg]

\* catch (error): message = error instanceof Error ? error.message : 'Unknown error'
OrchestrationFailed(msg) ==
    [status |-> 500, body |-> "Orchestration failed", detail |-> msg]

UnknownAction == [status |-> 400, body |-> "Unknown action", detail |-> Null]

\* the success envelope {requestId, action, result, processedAt}
Envelope(result) == [status |-> 200, body |-> "envelope", detail |-> result]

\* handleOrchestrate from the parsed body to the first await of the switch:
\* the request is logged, then the action is matched.
HubDispatch(r) ==
    /\ hpc[r] = "json"
    /\ LET q == reqs[r]
           requestId == randomUUID(r, "request") IN
        /\ rows' = [rows EXCEPT ![Hub] = LogRequest(@, requestId, q.action, q.id)]
        /\ IF q.action \notin KnownActions
           THEN /\ resp' = [resp EXCEPT ![r] = UnknownAction]
                /\ hpc' = [hpc EXCEPT ![r] = "done"]
           ELSE IF q.id = NoPayload
           THEN \* payload.claimId on undefined: TypeError, caught
                /\ resp' = [resp EXCEPT ![r] = OrchestrationFailed(<<"TypeError">>)]
                /\ hpc' = [hpc EXCEPT ![r] = "done"]
           ELSE /\ resp' = resp
                /\ hpc' = [hpc EXCEPT ![r] = "lookup"]
    /\ UNCHANGED <<reqs, tgt, pc, out, dcalls, state, triggered, wfBound, day>>
    /\ UNCHANGED made
    /\ UNCHANGED <<wvars, fvars>>

\* after `await getAgentByName(...)`: agent.fetch(new Request(...))
HubFetch(r) ==
    /\ hpc[r] = "lookup"
    /\ LET q == reqs[r] IN
        tgt' = [tgt EXCEPT ![r] =
            getAgentByName(ActionKind(q.action), HubAgentId(q.action, q.id))]
    /\ pc' = [pc EXCEPT ![r] = "start"]
    /\ dcalls' = [dcalls EXCEPT ![r] = @ + 1]
    /\ hpc' = [hpc EXCEPT ![r] = "wait"]
    /\ UNCHANGED <<reqs, out, resp, state, rows, triggered, wfBound, day>>
    /\ UNCHANGED made
    /\ UNCHANGED <<wvars, fvars>>

\* The downstream result the Hub reads with `.json()`
DownstreamResult(r) == out[r].detail

\* handleOrchestrate once the downstream fetch has settled: on a result the
\* log row is updated and the envelope returned; on a raise the catch block
\* answers.
HubReturn(r) ==
    /\ hpc[r] = "wait"
    /\ pc[r] \in {"done", "threw"}
    /\ IF pc[r] = "done"
       THEN /\ rows' = [rows EXCEPT ![Hub] =
                    LogResponse(@, randomUUID(r, "request"), DownstreamResult(r))]
            /\ resp' = [resp EXCEPT ![r] = Envelope(DownstreamResult(r))]
       ELSE /\ rows' = rows
            /\ resp' = [resp EXCEPT ![r] = OrchestrationFailed(out[r].detail)]
    /\ hpc' = [hpc EXCEPT ![r] = "done"]
    /\ UNCHANGED <<reqs, tgt, pc, out, dcalls, state, triggered, wfBound, day>>
    /\ UNCHANGED made
    /\ UNCHANGED <<wvars, fvars>>

\* The date read by new Date() changes.
Tick ==
    /\ day < MaxDay
    /\ day' = day + 1
    /\ UNCHANGED <<reqs, tgt, pc, hpc, out, resp, dcalls, state, rows, triggered, wfBound>>
    /\ UNCHANGED made
    /\ UNCHANGED <<wvars, fvars>>

Next ==
    \/ \E q \in Requests : Arrive(q)
    \/ \E r \in ReqIds : OnRequest(r)
    \/ \E r \in ReqIds : ClaimsParsed(r)
    \/ \E r \in ReqIds : ClaimsStore(r)
    \/ \E r \in ReqIds : AuditStore(r)
    \/ \E r \in ReqIds, cert \in BOOLEAN : LearningStore(r, cert)
    \/ \E r \in ReqIds, ok \in BOOLEAN : WorkflowTriggered(r, ok)
    \/ \E r \in ReqIds : HubOnRequest(r)
    \/ \E r \in ReqIds : HubDispatch(r)
    \/ \E r \in ReqIds : HubFetch(r)
    \/ \E r \in ReqIds : HubReturn(r)
    \/ Tick

\* ======================================================================
\* Durable workflows (setup.sh: ClaimsWorkflow, AuditWorkflow,
\* LearningWorkflow) and the step executor they run on
\* ======================================================================
RunIds == 1..MaxRuns
Workflows == {"claims", "audit", "learning"}
SampleSize == 4
\* rejectionReason is read by the second step only, which runs when no
\* required field is missing
ClaimsParamsSet ==
    {p \in [wf : {"claims"}, claimId : BOOLEAN, payerId : BOOLEAN,
            diagnosisCodes : BOOLEAN, reason : {AbsentReason, TxtCode, TxtOther}] :
        (p.claimId /\ p.payerId /\ p.diagnosisCodes) \/ p.reason = AbsentReason}
AuditParamsSet == [wf : {"audit"}, sampleSize : {SampleSize}]
LearningParamsSet ==
    [wf : {"learning"}, years : {1, 8}, targetCertification : {CertCCPKSA, CertRHIA}]
RunParams == ClaimsParamsSet \cup AuditParamsSet \cup LearningParamsSet

\* the step.do calls of the three run() methods, in declaration order
ClaimsSteps ==
    <<"validate-claim-data", "ai-analyze-rejection", "store-analysis-results",
      "determine-next-actions">>
AuditSteps ==
    <<"initialize-audit", "gather-sample-claims", "analyze-compliance",
      "generate-corrective-actions", "store-audit-results">>
LearningSteps ==
    <<"assess-current-skills", "generate-learning-modules",
      "calculate-success-probability", "create-schedule">>
Steps(wf) ==
    CASE wf = "claims" -> ClaimsSteps
      [] wf = "audit" -> AuditSteps
      [] wf = "learning" -> LearningSteps
Sites == 1..5

\* Variant: a step name built from a value that differs in every invocation
StepName_PerInvocation(wf, k, inv) == <<Steps(wf)[k], inv>>

\* the name the k-th step.do passes in invocation inv of run(): a literal
StepName(wf, k, inv) == <<Steps(wf)[k], 0>>

\* retries.limit of a step.do called without a retries option
DefaultRetryLimit == 0

\* Variant: the two configured retry limits exchanged
RetryLimit_Swapped(wf, k) ==
    CASE wf = "claims" /\ k = 2 -> 2
      [] wf = "audit" /\ k = 2 -> 3
      [] OTHER -> DefaultRetryLimit

\* options.retries.limit of the k-th step.do
RetryLimit(wf, k) ==
    CASE wf = "claims" /\ k = 2 -> 3
      [] wf = "audit" /\ k = 2 -> 2
      [] OTHER -> DefaultRetryLimit

MinOf(a, b) == IF a < b THEN a ELSE b
When(c, item) == IF c THEN <<item>> ELSE <<>>

\* Variant: the payer check left out of the validation
ValidateClaimData_NoPayerCheck(p) ==
    LET issues == When(~p.claimId, "Missing claim ID")
                    \o When(~p.diagnosisCodes, "Missing diagnosis codes")
    IN [isValid |-> Len(issues) = 0, issues |-> issues]

\* step 'validate-claim-data'
ValidateClaimData(p) ==
    LET issues == When(~p.claimId, "Missing claim ID")
                    \o When(~p.payerId, "Missing payer ID")
                    \o When(~p.diagnosisCodes, "Missing diagnosis codes")
    IN [isValid |-> Len(issues) = 0, issues |-> issues]

\* rejectionReason.toLowerCase().includes(keyword)
ReasonIncludes(reason, keyword) == includes(toLowerCase(reason), keyword)

\* step 'ai-analyze-rejection'
AnalyzeRejection(p) ==
    LET found == IF ~Truthy(p.reason) THEN <<>>
                 ELSE When(ReasonIncludes(p.reason, KwCode),
                           "Incorrect or missing diagnosis/procedure codes")
                        \o When(ReasonIncludes(p.reason, KwAuthorization),
                                "Missing prior authorization")
                        \o When(ReasonIncludes(p.reason, KwDocumentation),
                                "Insufficient clinical documentation")
        rootCauses == IF Len(found) = 0 THEN <<"Requires manual review">> ELSE found
        recommendations == Len(rootCauses)
    IN [confidenceScore |-> IF recommendations > 0 THEN 85 ELSE 50,
        rootCauses |-> rootCauses,
        recommendations |-> recommendations,
        automationAvailable |-> recommendations > 0]

\* step 'store-analysis-results'; t stands for new Date().toISOString()
StoreAnalysisResults(t) == [stored |-> TRUE, timestamp |-> t]

\* step 'determine-next-actions'
DetermineNextActions(analysis) ==
    [actions |-> IF analysis.automationAvailable
                 THEN <<"Prepare corrected claim", "Submit for re-processing">>
                 ELSE <<"Route to manual review queue", "Notify billing team">>,
     requiresHumanReview |-> ~analysis.automationAvailable]

\* step 'initialize-audit'
InitializeAudit(t) == [startTime |-> t]

\* step 'gather-sample-claims'; errors is the number of claims for which
\* Math.random() > 0.85 came out true
GatherSampleClaims(p, errors) == [errors |-> errors, totalSampled |-> p.sampleSize]

\* Math.round(x * 100) / 100 for x = num / den, in hundredths
Round2(num, den) == (2 * 100 * num + den) \div (2 * den)

\* the number NaN, which 0 / 0 yields; every comparison with it is false
NaN == -1
Lt(x, y) == x # NaN /\ y # NaN /\ x < y

\* Variant: the share of claims with errors taken for the score
AnalyzeCompliance_ErrorRate(p, sample) ==
    LET n == p.sampleSize
        errorCount == sample.errors
        Below(th) == n # 0 /\ errorCount * 100 < th * n
        riskLevel == IF Below(60) THEN "critical"
                     ELSE IF Below(75) THEN "high"
                     ELSE IF Below(90) THEN "medium" ELSE "low"
        auditOutcome == IF Below(60) THEN "NON_COMPLIANT"
                        ELSE IF Below(75) THEN "REQUIRES_IMPROVEMENT"
                        ELSE IF Below(90) THEN "MINOR_ISSUES" ELSE "COMPLIANT"
    IN [complianceScore |-> IF n = 0 THEN NaN ELSE Round2(errorCount * 100, n),
        riskLevel |-> riskLevel, auditOutcome |-> auditOutcome,
        errorCount |-> errorCount, sampleSize |-> n]

\* step 'analyze-compliance'; scores are in hundredths of a point.  With
\* 0 <= errorCount <= sampleSize the clamp Math.max(0, Math.min(100, .))
\* changes nothing, and it maps NaN to NaN.
AnalyzeCompliance(p, sample) ==
    LET n == p.sampleSize
        errorCount == sample.errors
        \* complianceScore < th, for complianceScore = (n - errorCount) / n * 100;
        \* false when the score is NaN (n = 0)
        Below(th) == n # 0 /\ (n - errorCount) * 100 < th * n
        riskLevel == IF Below(60) THEN "critical"
                     ELSE IF Below(75) THEN "high"
                     ELSE IF Below(90) THEN "medium" ELSE "low"
        auditOutcome == IF Below(60) THEN "NON_COMPLIANT"
                        ELSE IF Below(75) THEN "REQUIRES_IMPROVEMENT"
                        ELSE IF Below(90) THEN "MINOR_ISSUES" ELSE "COMPLIANT"
    IN [complianceScore |-> IF n = 0 THEN NaN ELSE Round2((n - errorCount) * 100, n),
        riskLevel |-> riskLevel, auditOutcome |-> auditOutcome,
        errorCount |-> errorCount, sampleSize |-> n]

\* step 'generate-corrective-actions'
GenerateCorrectiveActions(analysis) ==
    [actions |->
        When(analysis.riskLevel \in {"high", "critical"}, [actionId |-> "CAP-001", deadlineDays |-> 30])
          \o When(Lt(analysis.complianceScore, 8500),
                  [actionId |-> "CAP-002",
                   deadlineDays |-> IF Lt(analysis.complianceScore, 7000) THEN 90 ELSE 180])]

\* step 'store-audit-results'
StoreAuditResults == [stored |-> TRUE]

\* step 'assess-current-skills'
AssessCurrentSkills(p) ==
    LET baseLevel == 50 + p.years * 5
    IN [icd10Coding |-> MinOf(100, baseLevel + 10), sbsKnowledge |-> MinOf(100, baseLevel),
        documentation |-> MinOf(100, baseLevel + 20),
        clinicalTerminology |-> MinOf(100, baseLevel + 15)]

\* step 'generate-learning-modules': the modules' ids and hours
GenerateLearningModules(p) ==
    [modules |-> <<[id |-> "M001", hours |-> 8], [id |-> "M002", hours |-> 12],
                   [id |-> "M003", hours |-> 6]>>
                 \o (IF p.years < 2
                     THEN <<[id |-> "M004", hours |-> 10], [id |-> "M005", hours |-> 8]>>
                     ELSE <<[id |-> "M006", hours |-> 8], [id |-> "M007", hours |-> 6]>>)
                 \o When(includes(p.targetCertification, KwCCP),
                         [id |-> "M008", hours |-> 15])]

\* 0.6 + (yearsOfExperience * 0.05) in thousandths, the experience given
\* in half years
baseProbability(halfYears) == 600 + 25 * halfYears

\* Variant: the probability is not capped
adjustedProbability_NoCap(halfYears) == baseProbability(halfYears)

\* Math.min(0.95, baseProbability), in thousandths
adjustedProbability(halfYears) == MinOf(950, baseProbability(halfYears))

\* LearningLincAgent.generateLearningPath: the const successProbability, as
\* stored in learning_paths, in thousandths
successProbability(halfYears) == adjustedProbability(halfYears)

\* LearningLincAgent.generateLearningPath: the response carries
\* Math.round(successProbability * 100) / 100, in hundredths
responseProbability(halfYears) == Round2(successProbability(halfYears), 1000)

\* LearningWorkflow: Math.round(adjustedProbability * 100) / 100, in hundredths
overallProbability(halfYears) == Round2(adjustedProbability(halfYears), 1000)

\* unified worker's generateLearningPath: Math.round(successProbability * 100)
\* / 100 of Math.min(0.95, 0.6 + (experience * 0.05)), in hundredths
overall_probability(halfYears) == Round2(MinOf(950, 600 + 25 * halfYears), 1000)

\* step 'calculate-success-probability', in hundredths
CalculateSuccessProbability(p) ==
    [overallProbability |-> overallProbability(2 * p.years),
     experience |-> IF p.years > 2 THEN "positive" ELSE "neutral"]

RECURSIVE SumHours(_)
SumHours(ms) == IF ms = <<>> THEN 0 ELSE ms[1].hours + SumHours(Tail(ms))

\* step 'create-schedule'
CreateSchedule(mods) ==
    LET totalHours == SumHours(mods.modules)
    IN [totalModules |-> Len(mods.modules), totalEstimatedHours |-> totalHours,
        estimatedCompletionWeeks |-> (totalHours + 3) \div 4]

\* The function passed to the k-th step.do of run(), applied: p are the run's
\* params, loc the values earlier step.do calls returned, t the clock and
\* rnd the outcome of Math.random.
StepFn(p, k, loc, t, rnd) ==
    CASE p.wf = "claims" /\ k = 1 -> ValidateClaimData(p)
      [] p.wf = "claims" /\ k = 2 -> AnalyzeRejection(p)
      [] p.wf = "claims" /\ k = 3 -> StoreAnalysisResults(t)
      [] p.wf = "claims" /\ k = 4 -> DetermineNextActions(loc[2])
      [] p.wf = "audit" /\ k = 1 -> InitializeAudit(t)
      [] p.wf = "audit" /\ k = 2 -> GatherSampleClaims(p, rnd)
      [] p.wf = "audit" /\ k = 3 -> AnalyzeCompliance(p, loc[2])
      [] p.wf = "audit" /\ k = 4 -> GenerateCorrectiveActions(loc[3])
      [] p.wf = "audit" /\ k = 5 -> StoreAuditResults
      [] p.wf = "learning" /\ k = 1 -> AssessCurrentSkills(p)
      [] p.wf = "learning" /\ k = 2 -> GenerateLearningModules(p)
      [] p.wf = "learning" /\ k = 3 -> CalculateSuccessProbability(p)
      [] p.wf = "learning" /\ k = 4 -> CreateSchedule(loc[2])

\* the outcomes of Math.random that the k-th step function depends on
Randoms(p, k) == IF p.wf = "audit" /\ k = 2 THEN 0..p.sampleSize ELSE {0}

NoVal == [none |-> TRUE]
NoRecs == [key \in {} |-> NoVal]
Attempts(recs, key) == IF key \in DOMAIN recs THEN recs[key].attempt ELSE 0
Succeeded(recs, key) == key \in DOMAIN recs /\ recs[key].status = "succeeded"
Put(recs, key, rec) ==
    [x \in DOMAIN recs \cup {key} |-> IF x = key THEN rec ELSE recs[x]]

WfInit ==
    /\ wruns = <<>>
    /\ wstatus = [n \in RunIds |-> "none"]
    /\ wpos = [n \in RunIds |-> 0]
    /\ winv = [n \in RunIds |-> 0]
    /\ wrec = [n \in RunIds |-> NoRecs]
    /\ wcalls = [n \in RunIds |-> [k \in Sites |-> 0]]
    /\ wlocal = [n \in RunIds |-> [k \in Sites |-> NoVal]]
    /\ whave = [n \in RunIds |-> {}]
    /\ wout = [n \in RunIds |-> NoVal]

\* <BINDING>.create({params}): a new run; the engine invokes run()
WfCreate(p) ==
    /\ Len(wruns) < MaxRuns
    /\ LET n == Len(wruns) + 1 IN
        /\ wruns' = Append(wruns, p)
        /\ wstatus' = [wstatus EXCEPT ![n] = "running"]
        /\ wpos' = [wpos EXCEPT ![n] = 1]
    /\ UNCHANGED <<winv, wrec, wcalls, wlocal, whave, wout>>
    /\ UNCHANGED <<avars, fvars>>

\* what run() returns after its last step.do
RunResult(p, loc) ==
    CASE p.wf = "claims" ->
            [status |-> "completed", confidenceScore |-> loc[2].confidenceScore,
             rootCauses |-> loc[2].rootCauses, nextActions |-> loc[4].actions,
             requiresHumanReview |-> loc[4].requiresHumanReview]
      [] p.wf = "audit" ->
            [complianceScore |-> loc[3].complianceScore, riskLevel |-> loc[3].riskLevel,
             auditOutcome |-> loc[3].auditOutcome, sampleSize |-> loc[3].sampleSize,
             totalErrors |-> loc[3].errorCount, correctiveActions |-> loc[4].actions]
      [] p.wf = "learning" ->
            [learningPath |-> loc[4], modules |-> loc[2].modules,
             successProbability |-> loc[3]]

\* Variant: run() calls its last step.do again instead of returning
Continue_NoReturn(n, k, val) ==
    LET p == wruns[n]
        loc == [wlocal[n] EXCEPT ![k] = val] IN
    /\ wlocal' = [wlocal EXCEPT ![n] = loc]
    /\ whave' = [whave EXCEPT ![n] = @ \cup {k}]
    /\ wpos' = [wpos EXCEPT ![n] = IF k = Len(Steps(p.wf)) THEN k ELSE k + 1]
    /\ UNCHANGED <<wstatus, wout>>

\* Variant: run() does not call the step.do before its last one
Continue_SkipStep(n, k, val) ==
    LET p == wruns[n]
        loc == [wlocal[n] EXCEPT ![k] = val] IN
    /\ wlocal' = [wlocal EXCEPT ![n] = loc]
    /\ whave' = [whave EXCEPT ![n] = @ \cup {k}]
    /\ IF p.wf = "claims" /\ k = 1 /\ ~val.isValid
       THEN /\ wstatus' = [wstatus EXCEPT ![n] = "completed"]
            /\ wout' = [wout EXCEPT ![n] =
                    [status |-> "failed", reason |-> "validation", issues |-> val.issues]]
            /\ wpos' = wpos
       ELSE IF k = Len(Steps(p.wf))
       THEN /\ wstatus' = [wstatus EXCEPT ![n] = "completed"]
            /\ wout' = [wout EXCEPT ![n] = RunResult(p, loc)]
            /\ wpos' = wpos
       ELSE /\ wpos' = [wpos EXCEPT ![n] = IF k + 2 = Len(Steps(p.wf)) THEN k + 2 ELSE k + 1]
            /\ UNCHANGED <<wstatus, wout>>

\* run() goes on after its k-th step.do returned val: the early return of
\* ClaimsWorkflow on a failed validation, the next step.do, or the final
\* return.
Continue(n, k, val) ==
    LET p == wruns[n]
        loc == [wlocal[n] EXCEPT ![k] = val] IN
    /\ wlocal' = [wlocal EXCEPT ![n] = loc]
    /\ whave' = [whave EXCEPT ![n] = @ \cup {k}]
    /\ IF p.wf = "claims" /\ k = 1 /\ ~val.isValid
       THEN /\ wstatus' = [wstatus EXCEPT ![n] = "completed"]
            /\ wout' = [wout EXCEPT ![n] =
                    [status |-> "failed", reason |-> "validation", issues |-> val.issues]]
            /\ wpos' = wpos
       ELSE IF k = Len(Steps(p.wf))
       THEN /\ wstatus' = [wstatus EXCEPT ![n] = "completed"]
            /\ wout' = [wout EXCEPT ![n] = RunResult(p, loc)]
            /\ wpos' = wpos
       ELSE /\ wpos' = [wpos EXCEPT ![n] = k + 1]
            /\ UNCHANGED <<wstatus, wout>>

\* step.do finds a succeeded record under the step's name: the recorded
\* result is returned and the step function is not invoked.
WfStepReplayed(n) ==
    /\ wstatus[n] = "running"
    /\ LET key == StepName(wruns[n].wf, wpos[n], winv[n]) IN
        /\ Succeeded(wrec[n], key)
        /\ Continue(n, wpos[n], wrec[n][key].result)
    /\ UNCHANGED <<wruns, winv, wrec, wcalls>>
    /\ UNCHANGED <<avars, fvars>>

\* step.do invokes the step function.  ok: the attempt returned; otherwise
\* it raised or timed out.  A failed attempt is retried (after the delay)
\* until retries.limit is exhausted; then the step is recorded failed and
\* step.do raises, which run() does not catch.
WfStepAttempt(n, ok, rnd) ==
    /\ wstatus[n] = "running"
    /\ LET p == wruns[n]
           k == wpos[n]
           key == StepName(p.wf, k, winv[n])
           a == Attempts(wrec[n], key) + 1 IN
        /\ ~Succeeded(wrec[n], key)
        /\ rnd \in Randoms(p, k)
        /\ wcalls' = [wcalls EXCEPT ![n][k] = @ + 1]
        /\ IF ok
           THEN LET val == StepFn(p, k, wlocal[n], winv[n], rnd) IN
                /\ wrec' = [wrec EXCEPT ![n] = Put(@, key,
                        [status |-> "succeeded", result |-> val, attempt |-> a, site |-> k])]
                /\ Continue(n, k, val)
           ELSE /\ IF a > RetryLimit(p.wf, k)
                   THEN /\ wrec' = [wrec EXCEPT ![n] = Put(@, key,
                               [status |-> "failed", result |-> NoVal, attempt |-> a, site |-> k])]
                        /\ wstatus' = [wstatus EXCEPT ![n] = "failed"]
                   ELSE /\ wrec' = [wrec EXCEPT ![n] = Put(@, key,
                               [status |-> "pending", result |-> NoVal, attempt |-> a, site |-> k])]
                        /\ wstatus' = wstatus
                /\ UNCHANGED <<wpos, wlocal, whave, wout>>
    /\ UNCHANGED <<wruns, winv>>
    /\ UNCHANGED <<avars, fvars>>

\* The engine re-invokes run() of a run that has not finished (after a
\* restart or a hibernation): run() starts again at its first step.do.
WfReinvoke(n) ==
    /\ wstatus[n] = "running"
    /\ winv[n] < MaxReplays
    /\ winv' = [winv EXCEPT ![n] = @ + 1]
    /\ wpos' = [wpos EXCEPT ![n] = 1]
    /\ wlocal' = [wlocal EXCEPT ![n] = [k \in Sites |-> NoVal]]
    /\ whave' = [whave EXCEPT ![n] = {}]
    /\ UNCHANGED <<wruns, wstatus, wrec, wcalls, wout>>
    /\ UNCHANGED <<avars, fvars>>

NextWf ==
    \/ \E p \in RunParams : WfCreate(p)
    \/ \E n \in RunIds : WfStepReplayed(n)
    \/ \E n \in RunIds, ok \in BOOLEAN, rnd \in 0..SampleSize : WfStepAttempt(n, ok, rnd)
    \/ \E n \in RunIds : WfReinvoke(n)

\* ----------------------------------------------------------------------
\* fetch handler of the workflows worker: GET /api/workflow/status/:id
\* ----------------------------------------------------------------------
\* path.split('/').pop() of '/api/workflow/status/': the empty string
NoId == 0
LookupIds == 0..(MaxRuns + 1)

\* the runs env.<WF>_WORKFLOW holds
Registry(wf) == {n \in 1..Len(wruns) : wruns[n].wf = wf}
\* env.<WF>_WORKFLOW.get(id) resolves; it raises for an id it does not hold
WorkflowGet(wf, id) == id \in Registry(wf)
\* instance.status()
InstanceStatus(id) == wstatus[id]

\* the nesting of the try/catch blocks: the binding asked after wf's try
\* block raised, "none" in the innermost catch
NextRegistry(wf) ==
    CASE wf = "claims" -> "audit"
      [] wf = "audit" -> "learning"
      [] OTHER -> "none"

\* the handler up to its first await: 400 for an empty id, else
\* CLAIMS_WORKFLOW.get(id) is awaited.  `known` remembers whether the id
\* existed when the request arrived, `got` whether the get() of the binding
\* `at` has resolved.
StatusGet(id) ==
    /\ lookup.status # "pending"
    /\ lookup' = IF id = NoId
                 THEN [id |-> id, code |-> 400, status |-> "Missing instance ID",
                       at |-> "none", got |-> FALSE, known |-> FALSE]
                 ELSE [id |-> id, code |-> 0, status |-> "pending", at |-> "claims",
                       got |-> FALSE, known |-> id \in 1..Len(wruns)]
    /\ UNCHANGED <<arg, ans, uvars>>
    /\ UNCHANGED <<avars, wvars>>

\* the bare catch of the try block on the binding l.at: whatever was raised,
\* the next binding's get() is awaited, or 404 is answered from the innermost
\* catch
StatusCatch(l) ==
    IF NextRegistry(l.at) = "none"
    THEN [l EXCEPT !.code = 404, !.status = "Instance not found", !.at = "none",
                   !.got = FALSE]
    ELSE [l EXCEPT !.at = NextRegistry(l.at), !.got = FALSE]

\* the awaited get() settles: it resolves and instance.status() is awaited,
\* or it raises (the binding does not hold the id, or the call failed:
\* ~ok) and the catch block takes over
StatusTry(ok) ==
    /\ lookup.status = "pending"
    /\ lookup.at \in Workflows
    /\ ~lookup.got
    /\ lookup' =
         IF ok /\ WorkflowGet(lookup.at, lookup.id)
         THEN [lookup EXCEPT !.got = TRUE]
         ELSE StatusCatch(lookup)
    /\ UNCHANGED <<arg, ans, uvars>>
    /\ UNCHANGED <<avars, wvars>>

\* the awaited instance.status() settles: the handler answers 200, or the
\* call rejects (~ok) inside the same try block and the catch block takes
\* over
StatusReturn(ok) ==
    /\ lookup.status = "pending"
    /\ lookup.at \in Workflows
    /\ lookup.got
    /\ lookup' =
         IF ok
         THEN [lookup EXCEPT !.code = 200, !.status = InstanceStatus(lookup.id),
                             !.at = "none", !.got = FALSE]
         ELSE StatusCatch(lookup)
    /\ UNCHANGED <<arg, ans, uvars>>
    /\ UNCHANGED <<avars, wvars>>

\* one run of each workflow
StatusParams ==
    {[wf |-> "claims", claimId |-> TRUE, payerId |-> TRUE, diagnosisCodes |-> TRUE,
      reason |-> TxtOther],
     [wf |-> "audit", sampleSize |-> SampleSize],
     [wf |-> "learning", years |-> 1, targetCertification |-> CertCCPKSA]}

\* the status endpoint next to runs that the engine never re-invokes
NextStatus ==
    \/ \E p \in StatusParams : WfCreate(p)
    \/ \E n \in RunIds, ok \in BOOLEAN : WfStepAttempt(n, ok, 0)
    \/ \E id \in LookupIds : StatusGet(id)
    \/ \E ok \in BOOLEAN : StatusTry(ok)
    \/ \E ok \in BOOLEAN : StatusReturn(ok)

\* one run of each workflow, and a claims run that fails validation
LiveParams ==
    StatusParams \cup
    {[wf |-> "claims", claimId |-> TRUE, payerId |-> FALSE, diagnosisCodes |-> TRUE,
      reason |-> AbsentReason]}

NextRuns ==
    \/ \E p \in LiveParams : WfCreate(p)
    \/ \E n \in RunIds : WfStepReplayed(n)
    \/ \E n \in RunIds, ok \in BOOLEAN, rnd \in {0, SampleSize} : WfStepAttempt(n, ok, rnd)
    \/ \E n \in RunIds : WfReinvoke(n)

\* a step.do of run n goes on: its function returns, raises or times out,
\* or its recorded result is returned
WfStep(n) ==
    \/ WfStepReplayed(n)
    \/ \E ok \in BOOLEAN, rnd \in {0, SampleSize} : WfStepAttempt(n, ok, rnd)

\* ----------------------------------------------------------------------
\* The scoring and analysis functions of the agents
\* ----------------------------------------------------------------------
\* sampleSize * errorRate is a product of doubles: 50 * 0.29 comes out as
\* 14.499999999999998, below the half the exact product reaches.  Among the
\* sample sizes used here and the rates of 0 to 30 whole percent it is the
\* one product on the other side of a half.
ProductBelowHalf(sampleSize, rate) == sampleSize = 50 /\ rate = 29

\* simulateAudit's scoring; rate stands for Math.random() * 0.3 in percent,
\* scores are in hundredths of a point
SimulateAuditScore(sampleSize, rate) ==
    LET complianceScore == (100 - rate) * 100
        errorCount == IF ProductBelowHalf(sampleSize, rate)
                      THEN (sampleSize * rate) \div 100
                      ELSE (2 * sampleSize * rate + 100) \div 200
        riskLevel == IF complianceScore < 6000 THEN "critical"
                     ELSE IF complianceScore < 7500 THEN "high"
                     ELSE IF complianceScore < 9000 THEN "medium" ELSE "low"
        auditOutcome == IF complianceScore < 6000 THEN "NON_COMPLIANT"
                        ELSE IF complianceScore < 7500 THEN "REQUIRES_IMPROVEMENT"
                        ELSE IF complianceScore < 9000 THEN "MINOR_ISSUES" ELSE "COMPLIANT"
    IN [complianceScore |-> complianceScore, riskLevel |-> riskLevel,
        auditOutcome |-> auditOutcome, errorCount |-> errorCount,
        sampleSize |-> sampleSize]

\* the last element of a non-empty sequence of candidates, else the default
LastOr(default, xs) == IF xs = <<>> THEN default ELSE xs[Len(xs)]

\* Variant: the authorization branch sets the confidence of the code branch
performAnalysis_SameConfidence(rejectionReason) ==
    LET lowerReason == toLowerCase(rejectionReason)
        code == includes(lowerReason, KwCode) \/ includes(lowerReason, KwInvalid)
        auth == includes(lowerReason, KwAuthorization) \/ includes(lowerReason, KwPriorAuth)
        doc == includes(lowerReason, KwDocumentation)
                 \/ includes(lowerReason, KwMedicalNecessity)
        late == includes(lowerReason, KwTimely) \/ includes(lowerReason, KwDeadline)
        found == When(code, "Incorrect or missing diagnosis/procedure codes")
                   \o When(auth, "Missing prior authorization")
                   \o When(doc, "Insufficient clinical documentation")
                   \o When(late, "Claim submitted after filing deadline")
        recs == When(code, "Update required ICD-10 or CPT codes")
                  \o When(auth, "Obtain prior authorization from payer")
                  \o When(doc, "Enhance clinical documentation with required details")
                  \o When(late, "Review submission deadlines and file appeal")
        rootCauses == IF found = <<>> THEN <<"Requires manual review">> ELSE found
    IN [rootCauses |-> rootCauses,
        recommendations |->
            IF found = <<>> THEN <<"Manual review required by specialist">> ELSE recs,
        confidenceScore |->
            LastOr(50, When(code, 85) \o When(auth, 85) \o When(doc, 80) \o When(late, 70)),
        automationAvailable |->
            Len(rootCauses) > 0
              /\ ~\E k \in 1..Len(rootCauses) : rootCauses[k] = "Requires manual review"]

\* ClaimsLincAgent.performAnalysis; a recommendation is named by its English
\* text, the confidence is in hundredths
performAnalysis(rejectionReason) ==
    LET lowerReason == toLowerCase(rejectionReason)
        code == includes(lowerReason, KwCode) \/ includes(lowerReason, KwInvalid)
        auth == includes(lowerReason, KwAuthorization) \/ includes(lowerReason, KwPriorAuth)
        doc == includes(lowerReason, KwDocumentation)
                 \/ includes(lowerReason, KwMedicalNecessity)
        late == includes(lowerReason, KwTimely) \/ includes(lowerReason, KwDeadline)
        found == When(code, "Incorrect or missing diagnosis/procedure codes")
                   \o When(auth, "Missing prior authorization")
                   \o When(doc, "Insufficient clinical documentation")
                   \o When(late, "Claim submitted after filing deadline")
        recs == When(code, "Update required ICD-10 or CPT codes")
                  \o When(auth, "Obtain prior authorization from payer")
                  \o When(doc, "Enhance clinical documentation with required details")
                  \o When(late, "Review submission deadlines and file appeal")
        rootCauses == IF found = <<>> THEN <<"Requires manual review">> ELSE found
    IN [rootCauses |-> rootCauses,
        recommendations |->
            IF found = <<>> THEN <<"Manual review required by specialist">> ELSE recs,
        confidenceScore |->
            LastOr(50, When(code, 85) \o When(auth, 90) \o When(doc, 80) \o When(late, 70)),
        automationAvailable |->
            Len(rootCauses) > 0
              /\ ~\E k \in 1..Len(rootCauses) : rootCauses[k] = "Requires manual review"]

\* analyzeClaim: this.performAnalysis(rejectionReason || '', ...)
AnalyzeClaimReason(rejectionReason) == IF Truthy(rejectionReason) THEN rejectionReason ELSE <<>>

\* ----------------------------------------------------------------------
\* Frontend: lib/api.ts (axios instance `api` with its response
\* interceptor) and lib/store.ts
\* ----------------------------------------------------------------------
MaxCalls == 3
CallIds == 1..MaxCalls
NewCall == [st |-> "new", via |-> "none", retry |-> FALSE, sends |-> 0, refreshes |-> 0]

\* module state of api.ts and the initial state of useUIStore; the refresh
\* token is there when a login stored it
WebInit ==
    /\ isRefreshing = FALSE
    /\ failedQueue = {}
    /\ call = [c \in CallIds |-> NewCall]
    /\ refreshToken = TRUE
    /\ redirected = FALSE
    /\ language = "ar"
    /\ direction = "rtl"

\* Variant: the request is re-sent through the intercepted instance
ResendVia_Api == "api"

\* `return axios(originalRequest)`: the re-send goes through the global
\* axios, on which no interceptor is installed
ResendVia == "axios"

\* a call re-sent after the refresh
Resent(cl) == [cl EXCEPT !.st = "sent", !.via = ResendVia, !.sends = @ + 1]

\* api.get / api.post: the request goes out through `api`
ApiCall(c) ==
    /\ call[c].st = "new"
    /\ call' = [call EXCEPT ![c] = [@ EXCEPT !.st = "sent", !.via = "api", !.sends = 1]]
    /\ UNCHANGED <<isRefreshing, failedQueue, refreshToken, redirected, language, direction>>
    /\ UNCHANGED <<avars, wvars, lookup, arg, ans, edgevars>>

\* The response of call c arrives.  Through `api`, an error runs the
\* interceptor's rejection handler up to its first await or its return.
Response(c, status) ==
    /\ call[c].st = "sent"
    /\ IF status = 200
       THEN /\ call' = [call EXCEPT ![c].st = "resolved"]
            /\ UNCHANGED <<isRefreshing, failedQueue>>
       ELSE IF call[c].via = "api" /\ status = 401 /\ ~call[c].retry
       THEN IF isRefreshing
            THEN /\ failedQueue' = failedQueue \cup {c}
                 /\ call' = [call EXCEPT ![c].st = "queued"]
                 /\ UNCHANGED isRefreshing
            ELSE /\ isRefreshing' = TRUE
                 /\ call' = [call EXCEPT ![c] =
                        IF refreshToken
                        THEN [@ EXCEPT !.retry = TRUE, !.st = "refreshing",
                                       !.refreshes = @ + 1]
                        ELSE [@ EXCEPT !.retry = TRUE, !.st = "rejected"]]
                 /\ UNCHANGED failedQueue
       ELSE /\ call' = [call EXCEPT ![c].st = "rejected"]
            /\ UNCHANGED <<isRefreshing, failedQueue>>
    /\ UNCHANGED <<refreshToken, redirected, language, direction>>
    /\ UNCHANGED <<avars, wvars, lookup, arg, ans, edgevars>>

\* `await axios.post('/auth/refresh')` settles: the try block goes on with
\* processQueue and the re-send, or the catch block runs; finally resets
\* isRefreshing, and the callbacks of the queued promises run.
RefreshReturns(c, ok) ==
    /\ call[c].st = "refreshing"
    /\ IF ok
       THEN /\ call' = [x \in CallIds |->
                          IF x = c \/ x \in failedQueue THEN Resent(call[x]) ELSE call[x]]
            /\ refreshToken' = TRUE
            /\ UNCHANGED redirected
       ELSE /\ call' = [x \in CallIds |->
                          IF x = c \/ x \in failedQueue
                          THEN [call[x] EXCEPT !.st = "rejected"] ELSE call[x]]
            /\ refreshToken' = FALSE
            /\ redirected' = TRUE
    /\ failedQueue' = {}
    /\ isRefreshing' = FALSE
    /\ UNCHANGED <<language, direction>>
    /\ UNCHANGED <<avars, wvars, lookup, arg, ans, edgevars>>

\* useAuthStore.logout: the tokens are removed from localStorage
Logout ==
    /\ refreshToken
    /\ refreshToken' = FALSE
    /\ UNCHANGED <<isRefreshing, failedQueue, call, redirected, language, direction>>
    /\ UNCHANGED <<avars, wvars, lookup, arg, ans, edgevars>>

\* Variant: only the language is switched
toggleLanguage_LanguageOnly(st) ==
    [language |-> IF st.language = "ar" THEN "en" ELSE "ar", direction |-> st.direction]

\* useUIStore.toggleLanguage
toggleLanguage(st) ==
    [language |-> IF st.language = "ar" THEN "en" ELSE "ar",
     direction |-> IF st.direction = "rtl" THEN "ltr" ELSE "rtl"]

\* useUIStore.setLanguage
setLanguage(lang) == [language |-> lang, direction |-> IF lang = "ar" THEN "rtl" ELSE "ltr"]

UIState == [language |-> language, direction |-> direction]

ToggleLanguage ==
    /\ language' = toggleLanguage(UIState).language
    /\ direction' = toggleLanguage(UIState).direction
    /\ UNCHANGED <<isRefreshing, failedQueue, call, refreshToken, redirected>>
    /\ UNCHANGED <<avars, wvars, lookup, arg, ans, edgevars>>

SetLanguage(lang) ==
    /\ language' = setLanguage(lang).language
    /\ direction' = setLanguage(lang).direction
    /\ UNCHANGED <<isRefreshing, failedQueue, call, refreshToken, redirected>>
    /\ UNCHANGED <<avars, wvars, lookup, arg, ans, edgevars>>

NextWeb ==
    \/ \E c \in CallIds : ApiCall(c)
    \/ \E c \in CallIds, status \in {200, 401, 500} : Response(c, status)
    \/ \E c \in CallIds, ok \in BOOLEAN : RefreshReturns(c, ok)
    \/ Logout
    \/ ToggleLanguage
    \/ \E lang \in {"ar", "en"} : SetLanguage(lang)

\* every request sent gets its response or its network error, the refresh
\* call included
WebFairness ==
    /\ \A c \in CallIds : WF_vars(\E status \in {200, 401, 500} : Response(c, status))
    /\ \A c \in CallIds : WF_vars(\E ok \in BOOLEAN : RefreshReturns(c, ok))

\* ----------------------------------------------------------------------
\* Unified worker: checkRateLimit on the LINC_CACHE key ratelimit:<ip>
\* of one client IP
\* ----------------------------------------------------------------------
RateLimit == 100
MaxClients == 3
Clients == 1..MaxClients
Idle == [pc |-> "idle", count |-> 0]

\* no key stored, no request under way
EdgeInit == kv = 0 /\ rl = [k \in Clients |-> Idle] /\ admitted = 0

\* `parseInt(current)` of the stored decimal string, 0 when the key is absent
\* (the stored value is never "0": the first put writes "1")
ParsedCount(stored) == stored

\* handleRequest calls checkRateLimit, which awaits LINC_CACHE.get(key)
RateGet(k) ==
    /\ rl[k].pc = "idle"
    /\ rl' = [rl EXCEPT ![k] = [pc |-> "read", count |-> ParsedCount(kv)]]
    /\ UNCHANGED <<kv, admitted>>
    /\ UNCHANGED <<avars, wvars, lookup, arg, ans, webvars>>

\* the get has resolved: `if (count >= 100) return false`, else the put of
\* count + 1 with a 60 s time to live is called and awaited; the store
\* applies the write before it acknowledges it
RatePut(k) ==
    /\ rl[k].pc = "read"
    /\ IF rl[k].count >= RateLimit
       THEN /\ rl' = [rl EXCEPT ![k].pc = "limited"]
            /\ UNCHANGED kv
       ELSE /\ kv' = rl[k].count + 1
            /\ rl' = [rl EXCEPT ![k].pc = "put"]
    /\ UNCHANGED admitted
    /\ UNCHANGED <<avars, wvars, lookup, arg, ans, webvars>>

\* the put is acknowledged: `return true`
RateAdmit(k) ==
    /\ rl[k].pc = "put"
    /\ admitted' = admitted + 1
    /\ rl' = [rl EXCEPT ![k].pc = "admitted"]
    /\ UNCHANGED kv
    /\ UNCHANGED <<avars, wvars, lookup, arg, ans, webvars>>

\* the awaited LINC_CACHE.get or put rejects: the catch block returns true
RateError(k) ==
    /\ rl[k].pc \in {"read", "put"}
    /\ rl' = [rl EXCEPT ![k].pc = "failopen"]
    /\ UNCHANGED <<kv, admitted>>
    /\ UNCHANGED <<avars, wvars, lookup, arg, ans, webvars>>

NextEdge ==
    \/ \E k \in Clients : RateGet(k)
    \/ \E k \in Clients : RatePut(k)
    \/ \E k \in Clients : RateAdmit(k)
    \/ \E k \in Clients : RateError(k)

\* nothing looked up, nothing handed to the scoring and analysis functions
NoLookup ==
    [id |-> 0, code |-> 0, status |-> "none", at |-> "none", got |-> FALSE, known |-> FALSE]
NoArg == [kind |-> "none", n |-> 0, e1 |-> 0, e2 |-> 0, rate |-> 0, text |-> <<>>, cats |-> {}]
NoAns == [compliance |-> NoVal, compliance2 |-> NoVal, simulated |-> NoVal,
          performed |-> NoVal, analyzed |-> NoVal, success |-> NoVal]
FnInit == lookup = NoLookup /\ arg = NoArg /\ ans = NoAns /\ WebInit /\ EdgeInit

\* the agents worker
InitAgents == Init /\ WfInit /\ FnInit
Spec == InitAgents /\ [][Next]_vars

\* the workflows worker
InitWf == Init /\ wfBound = FALSE /\ WfInit /\ FnInit
SpecWf == InitWf /\ [][NextWf]_vars

\* the workflow runs when every step attempt of a started run eventually
\* returns, raises or times out
SpecRuns == InitWf /\ [][NextRuns]_vars /\ \A n \in RunIds : WF_vars(WfStep(n))

\* the workflows worker with its status endpoint
SpecStatus == InitWf /\ [][NextStatus]_vars

\* the unified worker's rate limit during one lifetime of the key, from any
\* count that earlier requests of the same client left under it
InitEdge ==
    /\ Init /\ wfBound = FALSE /\ WfInit
    /\ lookup = NoLookup /\ arg = NoArg /\ ans = NoAns
    /\ WebInit
    /\ kv \in 0..RateLimit /\ admitted = kv /\ rl = [k \in Clients |-> Idle]

SpecEdge == InitEdge /\ [][NextEdge]_vars

\* the frontend
SpecWeb == InitWf /\ [][NextWeb]_vars /\ WebFairness

\* ----------------------------------------------------------------------
\* The scoring and analysis functions applied to drawn inputs
\* ----------------------------------------------------------------------
MaxSample == 10
\* sample sizes: the small ones, the default 50, and one where rounding to
\* hundredths crosses a threshold
SampleSizes == 0..MaxSample \cup {50, 20001}
ErrorCounts(n) ==
    CASE n <= MaxSample -> 0..n
      [] n = 50 -> {0, 5, 6, 8, 12, 13, 20, 21, 50}
      [] OTHER -> {2000, 2001}
\* Math.random() * 0.3, in percent
Rates == {0, 10, 11, 25, 29}
AuditInputs ==
    UNION {[kind : {"audit"}, n : {n}, e1 : ErrorCounts(n), e2 : ErrorCounts(n),
            rate : Rates, text : {<<>>}, cats : {{}}] : n \in SampleSizes}

\* a rejection reason with the categories its text belongs to
Reason(text, cats) ==
    [kind |-> "reason", n |-> 0, e1 |-> 0, e2 |-> 0, rate |-> 0, text |-> text,
     cats |-> cats]
ReasonInputs ==
    {Reason(AbsentReason, {}), Reason(<<>>, {}), Reason(TxtOther, {}),
     Reason(TxtDuplicate, {}), Reason(TxtCod, {}),
     Reason(TxtCode, {"code"}), Reason(TxtInvalid, {"code"}),
     Reason(TxtInvalidCode, {"code"}),
     Reason(TxtMissingPriorAuthorization, {"authorization"}),
     Reason(TxtPriorAuthDenied, {"authorization"}),
     Reason(TxtMedicalNecessity, {"documentation"}),
     Reason(TxtDocumentation, {"documentation"}),
     Reason(TxtDeadline, {"timeliness"}),
     Reason(TxtTimelyCode, {"code", "timeliness"}),
     Reason(TxtDocAuth, {"authorization", "documentation"}),
     Reason(TxtAll, {"code", "authorization", "documentation", "timeliness"})}

\* two learners' experience in half years (arg.n and arg.e1)
MaxHalfYears == 20
HalfYears == 0..MaxHalfYears
LearnerInputs ==
    [kind : {"learner"}, n : HalfYears, e1 : HalfYears, e2 : {0}, rate : {0},
     text : {<<>>}, cats : {{}}]
FnInputs == AuditInputs \cup ReasonInputs \cup LearnerInputs

\* AuditWorkflow's 'analyze-compliance' on a sample of arg.n claims, for each
\* of the two error counts
ApplyAnalyzeCompliance ==
    /\ arg.kind = "audit" /\ ans.compliance = NoVal
    /\ LET p == [wf |-> "audit", sampleSize |-> arg.n] IN
        ans' = [ans EXCEPT
                  !.compliance = AnalyzeCompliance(p, GatherSampleClaims(p, arg.e1)),
                  !.compliance2 = AnalyzeCompliance(p, GatherSampleClaims(p, arg.e2))]
    /\ UNCHANGED <<lookup, arg, uvars>>
    /\ UNCHANGED <<avars, wvars>>

\* AuditLincAgent.simulateAudit's scoring
ApplySimulateAudit ==
    /\ arg.kind = "audit" /\ ans.simulated = NoVal
    /\ ans' = [ans EXCEPT !.simulated = SimulateAuditScore(arg.n, arg.rate)]
    /\ UNCHANGED <<lookup, arg, uvars>>
    /\ UNCHANGED <<avars, wvars>>

\* ClaimsLincAgent.analyzeClaim's call of performAnalysis
ApplyPerformAnalysis ==
    /\ arg.kind = "reason" /\ ans.performed = NoVal
    /\ ans' = [ans EXCEPT !.performed = performAnalysis(AnalyzeClaimReason(arg.text))]
    /\ UNCHANGED <<lookup, arg, uvars>>
    /\ UNCHANGED <<avars, wvars>>

\* ClaimsWorkflow's 'ai-analyze-rejection' on complete params
ApplyAnalyzeRejection ==
    /\ arg.kind = "reason" /\ ans.analyzed = NoVal
    /\ ans' = [ans EXCEPT !.analyzed =
                 AnalyzeRejection([wf |-> "claims", claimId |-> TRUE, payerId |-> TRUE,
                                   diagnosisCodes |-> TRUE, reason |-> arg.text])]
    /\ UNCHANGED <<lookup, arg, uvars>>
    /\ UNCHANGED <<avars, wvars>>

\* the success probability of the two learners, as the learning agent, the
\* learning workflow and the unified worker compute it
ApplySuccessProbability ==
    /\ arg.kind = "learner" /\ ans.success = NoVal
    /\ ans' = [ans EXCEPT !.success =
                 [agent |-> <<responseProbability(arg.n), responseProbability(arg.e1)>>,
                  stored |-> <<successProbability(arg.n), successProbability(arg.e1)>>,
                  workflow |-> <<overallProbability(arg.n), overallProbability(arg.e1)>>,
                  worker |-> <<overall_probability(arg.n), overall_probability(arg.e1)>>]]
    /\ UNCHANGED <<lookup, arg, uvars>>
    /\ UNCHANGED <<avars, wvars>>

NextFn ==
    \/ ApplySuccessProbability
    \/ ApplyAnalyzeCompliance
    \/ ApplySimulateAudit
    \/ ApplyPerformAnalysis
    \/ ApplyAnalyzeRejection

InitFn ==
    /\ Init /\ wfBound = FALSE /\ WfInit
    /\ lookup = NoLookup /\ arg \in FnInputs /\ ans = NoAns
    /\ WebInit /\ EdgeInit
SpecFn == InitFn /\ [][NextFn]_vars

\* ======================================================================
\* Claims about the agents
\* ======================================================================
Arrived == 1..Len(reqs)
Mid == {"json", "analysis", "wf"}
\* requests whose agent handler ran onRequest on instance i
Entered(i) == {r \in Arrived : tgt[r] = i /\ pc[r] \notin {"idle", "start"}}
\* requests whose agent handler stored its record and counted it on instance i
Stored(i) == {r \in Arrived : tgt[r] = i /\ pc[r] \in {"wf", "done"}}
ClaimsDefault == <<"claims", "default">>

\* C1: no lost update.  For every ClaimsLincAgent instance and any
\* interleaving of its handlers, claimsAnalyzed equals the number of handlers
\* that reached their state update and requestCount the number of handlers
\* entered: two concurrent analyze requests raise both by exactly 2.
C1_NoLostUpdate ==
    \A k \in Keys :
        LET i == <<"claims", k>> IN
            /\ state[i].count = Cardinality(Stored(i))
            /\ state[i].requestCount = Cardinality(Entered(i))

\* Two analyze requests on one instance, both finished; r1 entered after r2
\* (lastActivity) yet stored before it (row order): the handlers interleaved.
C1_Witness ==
    \E r1, r2 \in Arrived :
        /\ r1 # r2 /\ tgt[r1] = tgt[r2] /\ tgt[r1][1] = "claims"
        /\ pc[r1] = "done" /\ pc[r2] = "done"
        /\ state[tgt[r1]].lastActivity = r1
        /\ rows[tgt[r1]][1].id = randomUUID(r1, "analysis")
        /\ state[tgt[r1]].count = 2 /\ state[tgt[r1]].requestCount = 2

\* C4: serial access per instance.  No two requests served by the same agent
\* instance are inside their handlers (started, not finished) at once.
C4_SerialAccess ==
    \A r1, r2 \in Arrived :
        (r1 # r2 /\ tgt[r1] = tgt[r2] /\ tgt[r1] # NoInst)
            => ~(pc[r1] \in Mid /\ pc[r2] \in Mid)

\* C5: unknown action.  An orchestrate request with an unknown action is
\* answered 400 Unknown action with no downstream call, and the Hub's request
\* log and state show no trace of it.
C5_UnknownActionNoTrace ==
    \A r \in Arrived :
        resp[r] = UnknownAction =>
            /\ dcalls[r] = 0 /\ pc[r] = "idle"
            /\ \A k \in 1..Len(rows[Hub]) : rows[Hub][k].id # randomUUID(r, "request")
            /\ state[Hub].requestCount =
                 Cardinality({x \in Arrived : hpc[x] \notin {"none", "start"}
                                              /\ reqs[x].action \in KnownActions})

\* C6: default instance key.  A claims analyze request without claimId is
\* served by the instance keyed "default"; when all requests so far are such
\* requests, that instance's claimsAnalyzed is the number of them stored.
C6_DefaultInstanceKey ==
    LET D == {r \in Arrived : reqs[r].route = "claims" /\ reqs[r].id = Absent} IN
        /\ \A r \in D : tgt[r] = ClaimsDefault
        /\ D = Arrived =>
             /\ state[ClaimsDefault].count = Cardinality({r \in D : pc[r] \in {"wf", "done"}})
             /\ Len(rows[ClaimsDefault]) = state[ClaimsDefault].count

\* Two requests without claimId handled one after the other by the default
\* instance, which now shows claimsAnalyzed = 2.
C6_Witness ==
    /\ Len(reqs) = 2
    /\ \A r \in Arrived : reqs[r].route = "claims" /\ reqs[r].id = Absent /\ pc[r] = "done"
    /\ state[ClaimsDefault].count = 2
    /\ state[ClaimsDefault].lastActivity = 2
    /\ rows[ClaimsDefault][1].id = randomUUID(1, "analysis")

\* the agent kind and the business identifier a request carries
KindOf(q) == IF q.route = "orchestrate" THEN ActionKind(q.action) ELSE q.route
Routed == {r \in Arrived : tgt[r] # NoInst}

\* C7: routing determinism.  Two routed requests reach the same agent instance
\* exactly when they carry the same (kind, business identifier), whatever
\* their entry points (direct route or orchestrate action).
C7_RoutingDeterminism ==
    \A r1, r2 \in Routed :
        (tgt[r1] = tgt[r2])
            <=> (KindOf(reqs[r1]) = KindOf(reqs[r2]) /\ reqs[r1].id = reqs[r2].id)

\* the Hub's log record of request r, if any
LogRecords(r) == {k \in 1..Len(rows[Hub]) : rows[Hub][k].id = randomUUID(r, "request")}

\* C8: Hub request log ordering.  Once the downstream call of an orchestrate
\* request is issued the log holds its record (action and payload); the
\* record has a response only after the downstream handler returned a result,
\* and then the response is that result; a success envelope is sent only with
\* the response written; when the downstream call raised or has not
\* returned, the record stays without response; records are never deleted,
\* reordered or rewritten once they have a response.
C8_HubLogOrdering ==
    /\ [](\A r \in Arrived :
            /\ dcalls[r] > 0 =>
                 \E k \in LogRecords(r) :
                     /\ rows[Hub][k].type = reqs[r].action
                     /\ rows[Hub][k].payload = reqs[r].id
            /\ \A k \in LogRecords(r) :
                 /\ rows[Hub][k].response # Null =>
                      (pc[r] = "done" /\ rows[Hub][k].response = out[r].detail)
                 /\ (pc[r] # "done" \/ hpc[r] = "wait") => rows[Hub][k].response = Null
            /\ resp[r].body = "envelope" =>
                 \E k \in LogRecords(r) : rows[Hub][k].response = resp[r].detail)
    /\ [][/\ Len(rows'[Hub]) >= Len(rows[Hub])
          /\ \A k \in 1..Len(rows[Hub]) :
               /\ rows'[Hub][k].id = rows[Hub][k].id
               /\ rows'[Hub][k].type = rows[Hub][k].type
               /\ rows'[Hub][k].payload = rows[Hub][k].payload
               /\ rows[Hub][k].response # Null => rows'[Hub][k] = rows[Hub][k]]_vars

\* A Hub request answered with its envelope and a completed log record, next
\* to one whose downstream call raised and whose record has no response.
C8_Witness ==
    \E r1, r2 \in Arrived :
        /\ resp[r1].body = "envelope"
        /\ \E k \in LogRecords(r1) : rows[Hub][k].response = out[r1].detail
        /\ pc[r2] = "threw" /\ hpc[r2] = "done"
        /\ \E k \in LogRecords(r2) : rows[Hub][k].response = Null

\* C9: downstream failure is surfaced.  When the downstream call of the Hub
\* raised, the Hub answers 500 'Orchestration failed' with the message of the
\* downstream error; it issues at most one downstream call per request; a
\* success envelope is sent only for a downstream call that returned a result.
C9_DownstreamFailureSurfaced ==
    \A r \in Arrived :
        /\ dcalls[r] <= 1
        /\ (hpc[r] = "done" /\ pc[r] = "threw") =>
              /\ resp[r].status = 500
              /\ resp[r].body = "Orchestration failed"
              /\ resp[r].detail = out[r].detail
        /\ (reqs[r].route = "orchestrate"
              /\ (resp[r].status = 200 \/ resp[r].body = "envelope")) =>
              (pc[r] = "done" /\ out[r].status = 200)

\* A run_audit whose downstream handler raised and which the Hub answered.
C9_Witness ==
    \E r \in Arrived :
        /\ reqs[r].route = "orchestrate" /\ dcalls[r] = 1
        /\ pc[r] = "threw" /\ hpc[r] = "done"
        /\ resp[r].body = "Orchestration failed"

\* the instance addressed by (kind, business identifier)
InstanceOf(kind, id) == <<kind, IF id \in {Absent, ""} THEN "default" ELSE id>>
\* the instances a request may change
Owned(q) ==
    IF q.route = "master" THEN {Hub}
    ELSE IF q.route = "orchestrate"
    THEN {Hub} \cup (IF q.action \in KnownActions /\ q.id # NoPayload
                     THEN {InstanceOf(ActionKind(q.action), q.id)} ELSE {})
    ELSE {InstanceOf(q.route, q.id)}

\* C10: instance isolation.  Every step that changes the state or the stored
\* records of an instance is a step of a request addressed to it: a direct
\* request changes only its (kind, key) instance, an orchestrate request only
\* the Hub and its one downstream instance.
C10_InstanceIsolation ==
    [][\A i \in Instances :
          (state'[i] # state[i] \/ rows'[i] # rows[i]) =>
              \E r \in Arrived :
                  /\ (pc'[r] # pc[r] \/ hpc'[r] # hpc[r])
                  /\ i \in Owned(reqs[r])]_vars

\* An orchestrate request and a direct request of another instance both done,
\* with an instance neither of them addresses still in its initial state.
C10_Witness ==
    \E r1, r2 \in Arrived :
        /\ reqs[r1].route = "orchestrate" /\ resp[r1].body = "envelope"
        /\ reqs[r2].route # "orchestrate" /\ pc[r2] = "done"
        /\ tgt[r1] # tgt[r2]
        /\ state[tgt[r1]].count = 1 /\ state[tgt[r2]].count = 1
        /\ \A i \in Instances \ {Hub, tgt[r1], tgt[r2]} :
               state[i] = initialState /\ rows[i] = <<>>

\* the agent instances with a handler that stores a record
Workers == AgentKinds \X Keys

\* C14: optional workflow trigger.  Whether the workflow binding is absent,
\* create() returned or create() raised, a handler that stored its record
\* ends with its normal 200 result naming the stored record, and keeps the
\* record and the counter update: on every instance the counter equals the
\* number of handlers that stored and the number of records.
C14_OptionalWorkflowTrigger ==
    /\ \A i \in Workers :
          /\ state[i].count = Cardinality(Stored(i))
          /\ Len(rows[i]) = state[i].count
    /\ \A r \in Arrived :
          /\ pc[r] = "done" =>
                /\ out[r].status = 200 /\ out[r].body = "result"
                /\ out[r].detail = made[r]
                /\ out[r].detail \in RowIds(rows[tgt[r]])
          /\ r \in triggered => (wfBound /\ pc[r] = "done")

\* With the binding present, an audit whose create() raised next to a
\* learning path whose create() returned: both answered, both counted.
C14_Witness ==
    \E r1, r2 \in Arrived :
        /\ wfBound /\ r1 \notin triggered /\ r2 \in triggered
        /\ tgt[r1][1] = "audit" /\ pc[r1] = "done" /\ out[r1].status = 200
        /\ state[tgt[r1]].count = 1 /\ Len(rows[tgt[r1]]) = 1
        /\ tgt[r2][1] = "learning" /\ pc[r2] = "done"

\* requests delivered to instance i: its onRequest has run for them
Delivered(i) ==
    IF i = Hub THEN {r \in Arrived : hpc[r] \notin {"none", "start"}}
    ELSE Entered(i)
\* request r is delivered to instance i in this step
Delivering(r, i) ==
    IF i = Hub THEN hpc[r] = "start" /\ hpc'[r] # "start"
    ELSE tgt[r] = i /\ pc[r] = "start" /\ pc'[r] # "start"

\* C15: request accounting.  On every instance requestCount is the number of
\* requests delivered to it, whatever their path; each delivery raises it by
\* one and sets lastActivity to the delivered request, nothing else changes
\* either; requestCount and the handler counter never decrease.
C15_RequestAccounting ==
    /\ [](\A i \in Instances : state[i].requestCount = Cardinality(Delivered(i)))
    /\ [][\A i \in Instances :
            /\ state'[i].requestCount >= state[i].requestCount
            /\ state'[i].count >= state[i].count
            /\ (\E r \in Arrived : Delivering(r, i)) =>
                  \E r \in Arrived :
                      /\ Delivering(r, i)
                      /\ state'[i].requestCount = state[i].requestCount + 1
                      /\ state'[i].lastActivity = r
            /\ (~\E r \in Arrived : Delivering(r, i)) =>
                  /\ state'[i].requestCount = state[i].requestCount
                  /\ state'[i].lastActivity = state[i].lastActivity]_vars

\* One instance served a health check, then an analysis that it stored, and
\* the Hub a request to an unknown path.
C15_Witness ==
    \E r1, r2 \in Arrived :
        /\ reqs[r1].action = "health" /\ pc[r1] = "answered" /\ out[r1] = Healthy
        /\ reqs[r2].route = "claims" /\ reqs[r2].action = "-" /\ pc[r2] = "done"
        /\ tgt[r1] = tgt[r2]
        /\ state[tgt[r1]].requestCount = 2 /\ state[tgt[r1]].lastActivity = r2
        /\ state[tgt[r1]].count = 1

\* ======================================================================
\* Claims about the workflows
\* ======================================================================
Created == 1..Len(wruns)
\* the name of the k-th step of workflow wf
NameOf(wf, k) == <<Steps(wf)[k], 0>>

\* C2: idempotent replay.  A value step.do returned to run() is the result
\* recorded for that step, which has a succeeded record; a succeeded record
\* never changes afterwards and the function of its step is never invoked
\* again, whatever happens later in the run (re-invocation, failure of a
\* later step).
C2_IdempotentReplay ==
    /\ [](\A n \in Created : \A k \in whave[n] :
            LET key == NameOf(wruns[n].wf, k) IN
                /\ Succeeded(wrec[n], key)
                /\ wlocal[n][k] = wrec[n][key].result
                /\ wcalls[n][k] = wrec[n][key].attempt)
    /\ [][\A n \in Created : \A key \in DOMAIN wrec[n] :
            wrec[n][key].status = "succeeded" =>
                /\ key \in DOMAIN wrec'[n]
                /\ wrec'[n][key] = wrec[n][key]
                /\ wcalls'[n][wrec[n][key].site] = wcalls[n][wrec[n][key].site]]_vars

\* An audit run re-invoked after its first step succeeded (startTime is of
\* invocation 0): the step was returned from its record, its function having
\* run once, and a later step then failed the run.
C2_Witness ==
    \E n \in Created :
        /\ wruns[n].wf = "audit"
        /\ winv[n] = 1 /\ wstatus[n] = "failed"
        /\ {1, 2} \subseteq whave[n]
        /\ wcalls[n][1] = 1 /\ wcalls[n][2] = 1
        /\ wrec[n][NameOf("audit", 1)].status = "succeeded"
        /\ wrec[n][NameOf("audit", 1)].result.startTime = 0
        /\ wlocal[n][1].startTime = 0
        /\ wrec[n][NameOf("audit", 3)].status = "failed"

\* the steps configured with retries, and the limits the claim names
RetriedSteps == {<<"claims", 2, 3>>, <<"audit", 2, 2>>}

\* C3: retry exhaustion.  The function of 'ai-analyze-rejection' (N = 3) and
\* of 'gather-sample-claims' (N = 2) is invoked at most N+1 times; the step
\* is recorded failed exactly when N+1 invocations failed, and then the run
\* is failed and no later step of it has executed.
C3_RetryExhaustion ==
    \A n \in Created : \A c \in RetriedSteps :
        wruns[n].wf = c[1] =>
            LET k == c[2]
                key == NameOf(c[1], k)
                failed == key \in DOMAIN wrec[n] /\ wrec[n][key].status = "failed" IN
            /\ wcalls[n][k] <= c[3] + 1
            /\ failed =>
                 /\ wcalls[n][k] = c[3] + 1
                 /\ wstatus[n] = "failed"
                 /\ \A j \in Sites : j > k => (wcalls[n][j] = 0 /\ j \notin whave[n])
            /\ (wcalls[n][k] = c[3] + 1 /\ ~Succeeded(wrec[n], key)) => failed

\* A claims run failed after 4 invocations of its second step next to an
\* audit run failed after 3 invocations of its second step.
C3_Witness ==
    \E n, m \in Created :
        /\ wruns[n].wf = "claims" /\ wstatus[n] = "failed" /\ wcalls[n][2] = 4
        /\ wrec[n][NameOf("claims", 2)].status = "failed"
        /\ wruns[m].wf = "audit" /\ wstatus[m] = "failed" /\ wcalls[m][2] = 3
        /\ wrec[m][NameOf("audit", 2)].status = "failed"

\* the required fields a ClaimsWorkflow run's params lack
Lacking(p) ==
    {f \in {"claimId", "payerId", "diagnosisCodes"} :
        \/ f = "claimId" /\ ~p.claimId
        \/ f = "payerId" /\ ~p.payerId
        \/ f = "diagnosisCodes" /\ ~p.diagnosisCodes}
IssueOf(f) ==
    CASE f = "claimId" -> "Missing claim ID"
      [] f = "payerId" -> "Missing payer ID"
      [] f = "diagnosisCodes" -> "Missing diagnosis codes"

\* C11: validation stops the run.  In a ClaimsWorkflow run whose params lack
\* claimId, payerId or diagnosisCodes no step after 'validate-claim-data' is
\* ever executed; once that step has returned, the run has ended, with a
\* validation failure that lists exactly the issues of the lacking fields.
C11_ValidationStopsRun ==
    \A n \in Created :
        (wruns[n].wf = "claims" /\ Lacking(wruns[n]) # {}) =>
            /\ \A k \in 2..4 : wcalls[n][k] = 0 /\ k \notin whave[n]
            /\ 1 \in whave[n] =>
                 /\ wstatus[n] = "completed"
                 /\ wout[n].status = "failed" /\ wout[n].reason = "validation"
                 /\ {wout[n].issues[j] : j \in 1..Len(wout[n].issues)}
                      = {IssueOf(f) : f \in Lacking(wruns[n])}
                 /\ Len(wout[n].issues) = Cardinality(Lacking(wruns[n]))
            /\ wstatus[n] = "completed" => 1 \in whave[n]

\* A run lacking payerId and diagnosisCodes that ended after one invocation of
\* the validation step, next to a complete one that ran all four steps.
C11_Witness ==
    \E n, m \in Created :
        /\ wruns[n].wf = "claims" /\ Lacking(wruns[n]) = {"payerId", "diagnosisCodes"}
        /\ wcalls[n][1] = 1 /\ wstatus[n] = "completed"
        /\ wout[n].issues = <<"Missing payer ID", "Missing diagnosis codes">>
        /\ wruns[m].wf = "claims" /\ Lacking(wruns[m]) = {}
        /\ wstatus[m] = "completed" /\ wcalls[m][4] = 1

\* C12: run termination.  Every started run eventually reaches status
\* completed or failed, given that every step attempt eventually returns,
\* raises or times out.
C12_RunTermination ==
    \A n \in RunIds :
        (wstatus[n] = "running") ~> (wstatus[n] \in {"completed", "failed"})

\* A run that completed after a re-invocation of run(), next to a run that
\* failed when a step without retries raised.
C12_Witness ==
    \E n, m \in Created :
        /\ wstatus[n] = "completed" /\ winv[n] = 1 /\ wruns[n].wf = "learning"
        /\ wcalls[n] = [k \in Sites |-> IF k <= 4 THEN 1 ELSE 0]
        /\ wstatus[m] = "failed" /\ wruns[m].wf = "audit" /\ wcalls[m][4] = 1

\* C13: status lookup.  The status endpoint, asked for a non-empty id,
\* answers 200 with the run's current status or 404; it answers 200 whenever
\* the id was in the claims, the audit or the learning registry when the
\* request arrived, whichever holds it, and 404 only for an id that was in
\* none of them then.  Violated: a get() or status() that fails on a run the
\* registry holds is caught by the bare catch and answered 404.
C13_StatusLookup ==
    [][(lookup' # lookup /\ lookup'.status # "pending" /\ lookup'.id # NoId) =>
          /\ lookup'.code \in {200, 404}
          /\ lookup'.known => lookup'.code = 200
          /\ lookup'.code = 404 => ~lookup'.known
          /\ lookup'.code = 200 =>
                /\ \E wf \in Workflows : lookup'.id \in Registry(wf)
                /\ lookup'.status = wstatus[lookup'.id]]_vars

\* ======================================================================
\* Claims about the scoring and analysis functions
\* ======================================================================
\* the audit results computed for the drawn input
AuditResults == {ans.compliance, ans.compliance2, ans.simulated} \ {NoVal}

\* C16: compliance score formula.  The score reported with an audit result
\* is (sampleSize - errorCount) / sampleSize * 100 for the sample size and
\* error count of the same result, to the hundredth it is rounded to, and
\* lies in [0,100], for every sample size >= 0.
C16_ComplianceScoreFormula ==
    \A res \in AuditResults :
        /\ res.complianceScore # NaN
        /\ res.complianceScore >= 0 /\ res.complianceScore <= 10000
        /\ LET d == res.complianceScore * res.sampleSize
                      - (res.sampleSize - res.errorCount) * 10000
           IN 2 * d <= res.sampleSize /\ 2 * d > -res.sampleSize

RiskPairs ==
    {<<"low", "COMPLIANT">>, <<"medium", "MINOR_ISSUES">>,
     <<"high", "REQUIRES_IMPROVEMENT">>, <<"critical", "NON_COMPLIANT">>}

\* C17: threshold classification.  For the score reported with an audit
\* result: low/COMPLIANT iff score >= 90, medium/MINOR_ISSUES iff
\* 75 <= score < 90, high/REQUIRES_IMPROVEMENT iff 60 <= score < 75,
\* critical/NON_COMPLIANT iff score < 60; always one of the four pairs.
C17_ThresholdClassification ==
    \A res \in AuditResults :
        LET sc == res.complianceScore
            pair == <<res.riskLevel, res.auditOutcome>>
            isNumber == sc # NaN IN
        /\ pair \in RiskPairs
        /\ pair = <<"low", "COMPLIANT">> <=> (isNumber /\ sc >= 9000)
        /\ pair = <<"medium", "MINOR_ISSUES">> <=> (isNumber /\ sc >= 7500 /\ sc < 9000)
        /\ pair = <<"high", "REQUIRES_IMPROVEMENT">> <=> (isNumber /\ sc >= 6000 /\ sc < 7500)
        /\ pair = <<"critical", "NON_COMPLIANT">> <=> (isNumber /\ sc < 6000)

Rank(riskLevel) ==
    CASE riskLevel = "low" -> 0
      [] riskLevel = "medium" -> 1
      [] riskLevel = "high" -> 2
      [] riskLevel = "critical" -> 3

\* C18: compliance monotonicity.  For one sample size, of two error counts
\* the larger one gets a score that is not higher and a risk level that is
\* not better, in the audit workflow's 'analyze-compliance'.
C18_ComplianceMonotonicity ==
    (ans.compliance # NoVal /\ arg.e1 <= arg.e2) =>
        /\ ans.compliance.errorCount = arg.e1 /\ ans.compliance2.errorCount = arg.e2
        /\ arg.n > 0 => ans.compliance.complianceScore >= ans.compliance2.complianceScore
        /\ Rank(ans.compliance.riskLevel) <= Rank(ans.compliance2.riskLevel)

\* 50 claims sampled: 5 errors score 90 and low, 21 errors score 58 and
\* critical.
C18_Witness ==
    /\ arg.n = 50 /\ arg.e1 = 5 /\ arg.e2 = 21
    /\ ans.compliance # NoVal
    /\ ans.compliance.complianceScore = 9000 /\ ans.compliance.riskLevel = "low"
    /\ ans.compliance2.complianceScore = 5800 /\ ans.compliance2.riskLevel = "critical"

\* the categories in the order the analysis reports them, with the root cause
\* and the recommendation of each
Categories == <<"code", "authorization", "documentation", "timeliness">>
RootCauseOf(c) ==
    CASE c = "code" -> "Incorrect or missing diagnosis/procedure codes"
      [] c = "authorization" -> "Missing prior authorization"
      [] c = "documentation" -> "Insufficient clinical documentation"
      [] c = "timeliness" -> "Claim submitted after filing deadline"
RecommendationOf(c) ==
    CASE c = "code" -> "Update required ICD-10 or CPT codes"
      [] c = "authorization" -> "Obtain prior authorization from payer"
      [] c = "documentation" -> "Enhance clinical documentation with required details"
      [] c = "timeliness" -> "Review submission deadlines and file appeal"
\* the categories of cats, in reporting order
Matched(cats) == SelectSeq(Categories, LAMBDA c : c \in cats)

\* C19: rejection analysis by category.  performAnalysis returns one root
\* cause and one recommendation per category the reason belongs to, in the
\* order code, authorization, documentation, timeliness; for a reason of the
\* authorization category only, the root causes are exactly 'Missing prior
\* authorization' and the confidence is 0.9; automationAvailable is true iff
\* the reason belongs to at least one category.
C19_AnalysisByCategory ==
    (arg.kind = "reason" /\ ans.performed # NoVal) =>
        LET res == ans.performed
            m == Matched(arg.cats) IN
        /\ res.automationAvailable <=> arg.cats # {}
        /\ arg.cats # {} =>
             /\ res.rootCauses = [k \in 1..Len(m) |-> RootCauseOf(m[k])]
             /\ res.recommendations = [k \in 1..Len(m) |-> RecommendationOf(m[k])]
        /\ arg.cats = {"authorization"} =>
             /\ res.rootCauses = <<"Missing prior authorization">>
             /\ res.confidenceScore = 90

\* 'missing prior authorization' analysed, next to no other case: one root
\* cause, one recommendation, confidence 0.9, automation available.
C19_Witness ==
    /\ arg.text = TxtMissingPriorAuthorization
    /\ ans.performed # NoVal
    /\ ans.performed.rootCauses = <<"Missing prior authorization">>
    /\ Len(ans.performed.recommendations) = 1
    /\ ans.performed.confidenceScore = 90
    /\ ans.performed.automationAvailable

\* C20: manual-review fallback.  For a reason of no category, or an absent
\* one, the analysis is the single root cause 'Requires manual review' with
\* one recommendation and confidence 0.5, in ClaimsLincAgent.performAnalysis
\* and in the ClaimsWorkflow step 'ai-analyze-rejection' alike.
C20_ManualReviewFallback ==
    (arg.kind = "reason" /\ arg.cats = {}) =>
        /\ ans.performed # NoVal =>
             /\ ans.performed.rootCauses = <<"Requires manual review">>
             /\ Len(ans.performed.recommendations) = 1
             /\ ans.performed.confidenceScore = 50
        /\ ans.analyzed # NoVal =>
             /\ ans.analyzed.rootCauses = <<"Requires manual review">>
             /\ ans.analyzed.recommendations = 1
             /\ ans.analyzed.confidenceScore = 50

\* ----------------------------------------------------------------------
\* C22  Token refresh loop prevention: every call goes out at most twice
\* (once, and once more after a refresh), it starts at most one refresh,
\* and a response to a call that carries the _retry mark or was re-sent
\* starts no refresh.
\* ----------------------------------------------------------------------
C22_RefreshLoopPrevention ==
    /\ \A c \in CallIds : call[c].sends <= 2 /\ call[c].refreshes <= 1
    /\ \A c \in CallIds : call[c].sends = 2 /\ call[c].st # "sent"
            => call[c].st \in {"resolved", "rejected"}
    /\ \A c \in CallIds : call[c].st \in {"refreshing", "queued"} => call[c].sends = 1

\* a call was re-sent after the refresh it started, another after waiting
\* in the queue, and both were rejected on their second response
C22_Witness ==
    \E c, d \in CallIds :
        /\ call[c].retry /\ call[c].refreshes = 1 /\ call[c].sends = 2
        /\ call[c].st = "rejected"
        /\ ~call[d].retry /\ call[d].refreshes = 0 /\ call[d].sends = 2
        /\ call[d].st = "rejected"

\* ----------------------------------------------------------------------
\* C29  Token refresh always finishes: isRefreshing eventually returns to
\* false, at most one refresh call is in flight, and every queued call is
\* eventually resolved or rejected.
\* ----------------------------------------------------------------------
C29_RefreshFinishes ==
    /\ isRefreshing ~> ~isRefreshing
    /\ [](Cardinality({c \in CallIds : call[c].st = "refreshing"}) <= 1)
    /\ \A c \in CallIds :
          (call[c].st = "queued") ~> (call[c].st \in {"resolved", "rejected"})

\* ----------------------------------------------------------------------
\* C30  Language and direction stay consistent: direction is 'rtl'
\* exactly when language is 'ar' and 'ltr' exactly when language is 'en'.
\* ----------------------------------------------------------------------
C30_LanguageDirection ==
    /\ language \in {"ar", "en"}
    /\ direction \in {"rtl", "ltr"}
    /\ (direction = "rtl") <=> (language = "ar")
    /\ (direction = "ltr") <=> (language = "en")

\* the store was switched to English
C30_Witness == language = "en" /\ direction = "ltr"


\* ----------------------------------------------------------------------
\* C28  Rate limit bound under concurrency: while the key is live at most
\* RateLimit requests are admitted, the stored count never exceeds
\* RateLimit, and every request admitted or about to be (its put written,
\* not yet acknowledged) has raised the stored count by exactly one.
\* Requests let through by the catch block are not counted as admitted; the
\* count is compared only while no store call has failed.
\* ----------------------------------------------------------------------
C28_RateLimitBound ==
    LET pending == {k \in Clients : rl[k].pc = "put"}
        failed == {k \in Clients : rl[k].pc = "failopen"}
    IN  /\ admitted <= RateLimit
        /\ kv <= RateLimit
        /\ failed = {} => kv = admitted + Cardinality(pending)


\* min(0.95, 0.6 + years * 0.05) in thousandths, by cases
Expected(halfYears) == IF halfYears >= 14 THEN 950 ELSE 600 + 25 * halfYears

\* ----------------------------------------------------------------------
\* C21  Success probability, as claimed: for every experience the learning
\* agent, the learning workflow and the unified worker all return exactly
\* min(0.95, 0.6 + years * 0.05).
\* ----------------------------------------------------------------------
C21_SuccessProbabilityExact ==
    arg.kind = "learner" /\ ans.success # NoVal =>
        /\ 10 * ans.success.agent[1] = Expected(arg.n)
        /\ 10 * ans.success.workflow[1] = Expected(arg.n)
        /\ 10 * ans.success.worker[1] = Expected(arg.n)

\* C21  Success probability, as the code has it: the learning agent, the
\* learning workflow and the unified worker all return
\* min(0.95, 0.6 + years * 0.05) rounded to two decimals, halves upwards
\* (the agent stores the unrounded value); the returned value is
\* non-decreasing in experience and never exceeds 0.95.
C21_SuccessProbability ==
    arg.kind = "learner" /\ ans.success # NoVal =>
        LET res == ans.success
            \* Expected rounded to hundredths, halves upwards
            Rounded(h) == IF Expected(h) % 10 >= 5 THEN Expected(h) \div 10 + 1
                          ELSE Expected(h) \div 10
        IN  /\ res.agent = <<Rounded(arg.n), Rounded(arg.e1)>>
            /\ res.workflow = res.agent
            /\ res.worker = res.agent
            /\ res.stored = <<Expected(arg.n), Expected(arg.e1)>>
            /\ res.agent[1] <= 95 /\ res.workflow[1] <= 95 /\ res.worker[1] <= 95
            /\ arg.n <= arg.e1 =>
                  /\ res.agent[1] <= res.agent[2]
                  /\ res.workflow[1] <= res.workflow[2]
                  /\ res.worker[1] <= res.worker[2]

\* a learner with 2.5 years below the cap and one with 7.5 years at it
C21_Witness ==
    /\ arg.kind = "learner" /\ arg.n = 5 /\ arg.e1 = 15
    /\ ans.success # NoVal
    /\ ans.success.agent = <<73, 95>>
    /\ ans.success.stored = <<725, 950>>
    /\ ans.success.workflow = <<73, 95>>

\* ----------------------------------------------------------------------
\* C23  Step ordering: the steps of a run are taken in declaration order,
\* one at a time.  The records of a run are those of its first steps, all
\* succeeded but possibly the last; the function of step k+1 is invoked
\* only when step k has a succeeded record; run() holds the results of the
\* steps before its position and of no other; and the recorded result of a
\* step that reads an earlier one is computed from that step's recorded
\* result.
\* ----------------------------------------------------------------------
C23_StepOrdering ==
    \A n \in Created :
        LET p == wruns[n]
            recs == wrec[n]
            Rec(k) == recs[NameOf(p.wf, k)]
            Done(k) == Succeeded(recs, NameOf(p.wf, k))
            last == Len(Steps(p.wf))
        IN  /\ \A k \in 1..last :
                  /\ NameOf(p.wf, k) \in DOMAIN recs /\ k > 1 => Done(k - 1)
                  /\ wcalls[n][k] > 0 /\ k > 1 => Done(k - 1)
                  /\ wcalls[n][k] > 0 <=> NameOf(p.wf, k) \in DOMAIN recs
            /\ Cardinality({key \in DOMAIN recs : recs[key].status # "succeeded"}) <= 1
            /\ wstatus[n] = "running" => whave[n] = 1..(wpos[n] - 1)
            /\ \A k \in Sites :
                  /\ k \in whave[n] => Done(k) /\ wlocal[n][k] = Rec(k).result
                  /\ k \notin whave[n] => wlocal[n][k] = NoVal
            /\ p.wf = "claims" /\ Done(4) => Rec(4).result = DetermineNextActions(Rec(2).result)
            /\ p.wf = "audit" /\ Done(3) => Rec(3).result = AnalyzeCompliance(p, Rec(2).result)
            /\ p.wf = "audit" /\ Done(4) =>
                  Rec(4).result = GenerateCorrectiveActions(Rec(3).result)
            /\ p.wf = "learning" /\ Done(4) => Rec(4).result = CreateSchedule(Rec(2).result)

\* an audit run finished all five steps after a failed attempt of
\* 'gather-sample-claims', and a claims run reached 'determine-next-actions'
C23_Witness ==
    /\ \E n \in Created :
          /\ wruns[n].wf = "audit" /\ wstatus[n] = "completed"
          /\ whave[n] = 1..5 /\ wcalls[n][2] = 2
    /\ \E n \in Created :
          /\ wruns[n].wf = "claims"
          /\ Succeeded(wrec[n], NameOf("claims", 4))


\* ----------------------------------------------------------------------
\* C27  Manual review is routed to a human: in a claims run whose analysis
\* fell back to 'Requires manual review', 'determine-next-actions' yields
\* requiresHumanReview = true with the manual-review actions, and
\* requiresHumanReview is false only when a rejection category matched.
\* ----------------------------------------------------------------------
C27_ManualReviewRouted ==
    \A n \in Created :
        wruns[n].wf = "claims" /\ Succeeded(wrec[n], NameOf("claims", 4)) =>
            LET analysis == wrec[n][NameOf("claims", 2)].result
                next == wrec[n][NameOf("claims", 4)].result
                fallback == analysis.rootCauses = <<"Requires manual review">>
            IN  /\ fallback =>
                      /\ next.requiresHumanReview
                      /\ next.actions = <<"Route to manual review queue", "Notify billing team">>
                /\ ~next.requiresHumanReview => ~fallback


\* ----------------------------------------------------------------------
\* C24  State and stored records agree: on every claims, audit and learning
\* instance, in every reachable state, the counter of the instance's state
\* (claimsAnalyzed, auditsCompleted, pathsGenerated) is the number of
\* records in its table, and each change of either raises both by one.
\* ----------------------------------------------------------------------
C24_StateMatchesRecords ==
    /\ [](\A i \in Workers : state[i].count = Len(rows[i]))
    /\ [][\A i \in Workers :
            (state'[i].count # state[i].count \/ rows'[i] # rows[i]) =>
                /\ state'[i].count = state[i].count + 1
                /\ Len(rows'[i]) = Len(rows[i]) + 1
                /\ SubSeq(rows'[i], 1, Len(rows[i])) = rows[i]]_vars

\* an audit instance holds one record and counts one audit after a second
\* handler failed on its INSERT, while the first handler is at its await of
\* the workflow's create()
C24_Witness ==
    \E r1, r2 \in Arrived :
        /\ tgt[r1][1] = "audit" /\ pc[r1] = "threw" /\ out[r1].detail = <<"SqlError">>
        /\ tgt[r2] = tgt[r1] /\ pc[r2] = "wf"
        /\ state[tgt[r1]].count = 1 /\ Len(rows[tgt[r1]]) = 1

\* ----------------------------------------------------------------------
\* C25  Repeated audits are all recorded: every simulate request that
\* carries a providerId stores a new audit_results record under an id of
\* its own and is counted, also when two audits of one provider fall on the
\* same day.
\* ----------------------------------------------------------------------
C25_RepeatedAuditsRecorded ==
    /\ \A r \in Arrived :
          /\ reqs[r].route = "audit" /\ reqs[r].action = "-" /\ reqs[r].id # Absent
          /\ pc[r] \notin {"idle", "start", "json"}
          => pc[r] \in {"wf", "done"}
    /\ \A i \in Workers : Cardinality(RowIds(rows[i])) = Len(rows[i])

\* ----------------------------------------------------------------------
\* C26  Missing provider id is handled: a simulate request without
\* providerId goes to the default audit instance and is processed like any
\* other: it stores its record, is counted and returns the audit result.
\* ----------------------------------------------------------------------
C26_MissingProviderHandled ==
    \A r \in Arrived :
        /\ reqs[r].route = "audit" /\ reqs[r].action = "-" /\ reqs[r].id = Absent
        /\ pc[r] \notin {"idle", "start", "json"}
        => /\ tgt[r] = <<"audit", "default">>
           /\ pc[r] \in {"wf", "done"}

====
